---- MODULE Spec2Model ----
(***************************************************************************)
(* Predictive prefetch pipeline of nextjs-performance-optimization:        *)
(* lib/prefetch-service.ts (model loading, model-backed and rule-based     *)
(* route prediction, CDN prewarm) and middleware.ts (visit-log cookie,     *)
(* prediction header).                                                     *)
(*                                                                         *)
(* Routes, cookie values and header values are strings; the JavaScript     *)
(* string and JSON operations the code uses are defined here on strings,   *)
(* character by character.                                                 *)
(***************************************************************************)
EXTENDS Integers, Sequences, FiniteSets, TLC

(***************************************************************************)
(* JavaScript string primitives used by the code.                          *)
(***************************************************************************)

\* s.charAt(i-1): the i-th character of s (1-based), "" when out of range
CharAt(s, i) == IF i >= 1 /\ i <= Len(s) THEN SubSeq(s, i, i) ELSE ""

\* s.includes(sub), also a regular expression that is one literal
Includes(s, sub) ==
    \E i \in 1..(Len(s) + 1) :
        /\ i + Len(sub) - 1 <= Len(s)
        /\ SubSeq(s, i, i + Len(sub) - 1) = sub

\* s.startsWith(prefix)
StartsWith(s, prefix) ==
    /\ Len(s) >= Len(prefix)
    /\ SubSeq(s, 1, Len(prefix)) = prefix

\* position of the first occurrence of the one-character string ch in s at
\* or after position i, or 0 when there is none
RECURSIVE IndexOfFrom(_, _, _)
IndexOfFrom(s, ch, i) ==
    IF i > Len(s) THEN 0
    ELSE IF CharAt(s, i) = ch THEN i
    ELSE IndexOfFrom(s, ch, i + 1)

\* s.split(sep) for a one-character separator
RECURSIVE Split(_, _)
Split(s, sep) ==
    LET k == IndexOfFrom(s, sep, 1)
    IN  IF k = 0 THEN << s >>
        ELSE << SubSeq(s, 1, k - 1) >> \o Split(SubSeq(s, k + 1, Len(s)), sep)

Digits == << "0", "1", "2", "3", "4", "5", "6", "7", "8", "9" >>
HexDigits == Digits \o << "a", "b", "c", "d", "e", "f" >>
HexDigitsUpper == Digits \o << "A", "B", "C", "D", "E", "F" >>

\* value of the digit character ch in the given radix, or -1
DigitValue(ch, radix) ==
    LET hits == { d \in 1..radix :
                    HexDigits[d] = ch \/ HexDigitsUpper[d] = ch }
    IN  IF hits = {} THEN -1 ELSE (CHOOSE d \in hits : TRUE) - 1

\* JavaScript numbers as far as the code needs them: an integer, or NaN
Num(n) == [nan |-> FALSE, n |-> n]
NaN == [nan |-> TRUE, n |-> 0]
IsNaN(x) == x.nan

\* longest run of radix digits of s from position i, folded into acc;
\* seen tells whether a digit was consumed
RECURSIVE ParseDigits(_, _, _, _, _)
ParseDigits(s, i, radix, acc, seen) ==
    LET d == DigitValue(CharAt(s, i), radix)
    IN  IF d < 0 THEN [seen |-> seen, value |-> acc]
        ELSE ParseDigits(s, i + 1, radix, acc * radix + d, TRUE)

\* number of leading space characters of s
RECURSIVE LeadingSpaces(_)
LeadingSpaces(s) ==
    IF CharAt(s, 1) = " " THEN 1 + LeadingSpaces(Tail(s)) ELSE 0

\* parseInt(s) with no radix argument: leading blanks, an optional sign, an
\* optional 0x prefix, then the longest digit run; NaN when there is no digit.
\* undefined (a missing array element) converts to "undefined" and gives NaN.
ParseInt(s) ==
    LET t     == SubSeq(s, LeadingSpaces(s) + 1, Len(s))
        neg   == CharAt(t, 1) = "-"
        u     == IF CharAt(t, 1) \in {"-", "+"} THEN Tail(t) ELSE t
        hex   == StartsWith(u, "0x") \/ StartsWith(u, "0X")
        radix == IF hex THEN 16 ELSE 10
        body  == IF hex THEN SubSeq(u, 3, Len(u)) ELSE u
        r     == ParseDigits(body, 1, radix, 0, FALSE)
    IN  IF ~r.seen THEN NaN
        ELSE IF neg THEN Num(0 - r.value) ELSE Num(r.value)

\* decimal digits of a natural number
RECURSIVE NatToString(_)
NatToString(n) ==
    IF n < 10 THEN Digits[n + 1]
    ELSE NatToString(n \div 10) \o Digits[(n % 10) + 1]

\* String(x) for x a number or NaN, as a template literal formats it
NumberToString(x) ==
    IF IsNaN(x) THEN "NaN"
    ELSE IF x.n < 0 THEN "-" \o NatToString(0 - x.n)
    ELSE NatToString(x.n)

\* x + 1 on JavaScript numbers: NaN is absorbing
PlusOne(x) == IF IsNaN(x) THEN NaN ELSE Num(x.n + 1)

\* array.slice(-n): the last n elements (all of them when there are fewer)
SliceLast(arr, n) ==
    IF Len(arr) <= n THEN arr ELSE SubSeq(arr, Len(arr) - n + 1, Len(arr))

\* array.slice(0, n): the first n elements
SliceFirst(arr, n) ==
    IF Len(arr) <= n THEN arr ELSE SubSeq(arr, 1, n)

(***************************************************************************)
(* JavaScript values: what JSON.parse can return, plus undefined.          *)
(* An object is its list of <<key, value>> entries in insertion order.     *)
(***************************************************************************)
JNull == [t |-> "null"]
Undefined == [t |-> "undefined"]
JBool(b) == [t |-> "bool", v |-> b]
JNum(n) == [t |-> "num", v |-> n]
JStr(s) == [t |-> "str", v |-> s]
JArr(items) == [t |-> "arr", v |-> items]
JObj(entries) == [t |-> "obj", v |-> entries]

\* a string[] value
StrArr(strs) == JArr([i \in 1..Len(strs) |-> JStr(strs[i])])

\* the truthiness test of `if (v)`, `!v`, `a && b`
Truthy(v) ==
    CASE v.t = "null" -> FALSE
      [] v.t = "undefined" -> FALSE
      [] v.t = "bool" -> v.v
      [] v.t = "num" -> v.v # 0
      [] v.t = "str" -> v.v # ""
      [] OTHER -> TRUE

\* a ?? b
Coalesce(a, b) == IF a.t \in {"null", "undefined"} THEN b ELSE a

\* String(v) as used for a property key
RECURSIVE ToPropertyKey(_)
ToPropertyKey(v) ==
    CASE v.t = "str" -> v.v
      [] v.t = "num" -> NumberToString(Num(v.v))
      [] v.t = "bool" -> IF v.v THEN "true" ELSE "false"
      [] v.t = "null" -> "null"
      [] v.t = "undefined" -> "undefined"
      [] v.t = "arr" ->
            IF Len(v.v) = 0 THEN ""
            ELSE IF Len(v.v) = 1 THEN
                   (IF v.v[1].t \in {"null", "undefined"} THEN ""
                    ELSE ToPropertyKey(v.v[1]))
            ELSE ToPropertyKey(JArr(SubSeq(v.v, 1, Len(v.v) - 1))) \o ","
                 \o (IF v.v[Len(v.v)].t \in {"null", "undefined"} THEN ""
                     ELSE ToPropertyKey(v.v[Len(v.v)]))
      [] OTHER -> "[object Object]"

\* names every plain object inherits from Object.prototype
ObjectPrototypeKeys ==
    { "constructor", "toString", "toLocaleString", "valueOf", "hasOwnProperty",
      "isPrototypeOf", "propertyIsEnumerable", "__proto__" }

\* the member of Object.prototype under a name: a function (an object for
\* __proto__), never null or undefined
Inherited(key) == [t |-> "fn", v |-> key]

\* obj[key] for a plain object: the value of an own property, else the
\* member inherited from Object.prototype, else undefined
GetProp(obj, key) ==
    LET hits == { i \in 1..Len(obj.v) : obj.v[i][1] = key }
    IN  IF hits # {} THEN obj.v[CHOOSE i \in hits : TRUE][2]
        ELSE IF key \in ObjectPrototypeKeys THEN Inherited(key)
        ELSE Undefined

\* obj[key] = value: overwrite in place, or append a new property
SetProp(obj, key, value) ==
    LET hits == { i \in 1..Len(obj.v) : obj.v[i][1] = key }
    IN  IF hits = {} THEN JObj(Append(obj.v, << key, value >>))
        ELSE JObj([obj.v EXCEPT ![CHOOSE i \in hits : TRUE] = << key, value >>])

(***************************************************************************)
(* JSON.stringify and JSON.parse on the values above.  Numbers are         *)
(* integers, whitespace is the blank, and the string escapes are \" \\ \/. *)
(***************************************************************************)

\* the characters of a string, with `"` and `\` escaped
RECURSIVE EscapeString(_)
EscapeString(s) ==
    IF s = "" THEN ""
    ELSE LET ch == CharAt(s, 1)
         IN  (IF ch \in {"\"", "\\"} THEN "\\" \o ch ELSE ch)
             \o EscapeString(Tail(s))

QuoteString(s) == "\"" \o EscapeString(s) \o "\""

RECURSIVE JsonStringify(_)
RECURSIVE StringifyItems(_, _)
RECURSIVE StringifyMembers(_, _)

StringifyItems(items, i) ==
    IF i > Len(items) THEN ""
    ELSE (IF i > 1 THEN "," ELSE "")
         \o (IF items[i].t = "undefined" THEN "null" ELSE JsonStringify(items[i]))
         \o StringifyItems(items, i + 1)

StringifyMembers(entries, i) ==
    IF i > Len(entries) THEN ""
    ELSE (IF i > 1 THEN "," ELSE "")
         \o QuoteString(entries[i][1]) \o ":" \o JsonStringify(entries[i][2])
         \o StringifyMembers(entries, i + 1)

\* JSON.stringify(v)
JsonStringify(v) ==
    CASE v.t = "str" -> QuoteString(v.v)
      [] v.t = "num" -> NumberToString(Num(v.v))
      [] v.t = "bool" -> IF v.v THEN "true" ELSE "false"
      [] v.t = "null" -> "null"
      [] v.t = "arr" -> "[" \o StringifyItems(v.v, 1) \o "]"
      [] v.t = "obj" -> "{" \o StringifyMembers(v.v, 1) \o "}"

\* result of a parsing step: ok, the value read, the position after it
Parsed(val, next) == [ok |-> TRUE, val |-> val, next |-> next]
SyntaxError == [ok |-> FALSE, val |-> [t |-> "undefined"], next |-> 0]

\* first position at or after i that holds no blank
RECURSIVE SkipBlanks(_, _)
SkipBlanks(s, i) == IF CharAt(s, i) = " " THEN SkipBlanks(s, i + 1) ELSE i

\* the body of a string literal from position i (after the opening quote)
RECURSIVE ParseStringBody(_, _, _)
ParseStringBody(s, i, acc) ==
    LET ch == CharAt(s, i)
    IN  IF ch = "" THEN SyntaxError
        ELSE IF ch = "\"" THEN Parsed(JStr(acc), i + 1)
        ELSE IF ch = "\\" THEN
            (IF CharAt(s, i + 1) \in {"\"", "\\", "/"}
             THEN ParseStringBody(s, i + 2, acc \o CharAt(s, i + 1))
             ELSE SyntaxError)
        ELSE ParseStringBody(s, i + 1, acc \o ch)

\* an integer literal at position i: -? (0 | [1-9][0-9]*)
ParseNumber(s, i) ==
    LET neg == CharAt(s, i) = "-"
        j == IF neg THEN i + 1 ELSE i
        r == ParseDigits(SubSeq(s, j, Len(s)), 1, 10, 0, FALSE)
        digitsEnd == CHOOSE e \in j..(Len(s) + 1) :
                        /\ \A m \in j..(e - 1) : DigitValue(CharAt(s, m), 10) >= 0
                        /\ DigitValue(CharAt(s, e), 10) < 0
    IN  IF ~r.seen THEN SyntaxError
        ELSE IF CharAt(s, j) = "0" /\ digitsEnd > j + 1 THEN SyntaxError
        ELSE Parsed(JNum(IF neg THEN 0 - r.value ELSE r.value), digitsEnd)

RECURSIVE ParseValue(_, _)
RECURSIVE ParseElements(_, _, _)
RECURSIVE ParseMembers(_, _, _)

\* array elements from position i (after `[` or `,`), items read so far in acc
ParseElements(s, i, acc) ==
    LET e == ParseValue(s, i)
        j == SkipBlanks(s, e.next)
    IN  IF ~e.ok THEN SyntaxError
        ELSE IF CharAt(s, j) = "," THEN ParseElements(s, j + 1, Append(acc, e.val))
        ELSE IF CharAt(s, j) = "]" THEN Parsed(JArr(Append(acc, e.val)), j + 1)
        ELSE SyntaxError

\* object members from position i (after `{` or `,`), entries read so far in acc
ParseMembers(s, i, acc) ==
    LET k == SkipBlanks(s, i)
        key == IF CharAt(s, k) = "\"" THEN ParseStringBody(s, k + 1, "")
               ELSE SyntaxError
        c == SkipBlanks(s, key.next)
        e == ParseValue(s, c + 1)
        j == SkipBlanks(s, e.next)
    IN  IF ~key.ok \/ CharAt(s, c) # ":" THEN SyntaxError
        ELSE IF ~e.ok THEN SyntaxError
        ELSE IF CharAt(s, j) = ","
             THEN ParseMembers(s, j + 1, SetProp(JObj(acc), key.val.v, e.val).v)
        ELSE IF CharAt(s, j) = "}"
             THEN Parsed(SetProp(JObj(acc), key.val.v, e.val), j + 1)
        ELSE SyntaxError

\* one JSON value starting at or after position i
ParseValue(s, i) ==
    LET j == SkipBlanks(s, i)
        ch == CharAt(s, j)
    IN  IF ch = "\"" THEN ParseStringBody(s, j + 1, "")
        ELSE IF ch = "[" THEN
            (IF CharAt(s, SkipBlanks(s, j + 1)) = "]"
             THEN Parsed(JArr(<< >>), SkipBlanks(s, j + 1) + 1)
             ELSE ParseElements(s, j + 1, << >>))
        ELSE IF ch = "{" THEN
            (IF CharAt(s, SkipBlanks(s, j + 1)) = "}"
             THEN Parsed(JObj(<< >>), SkipBlanks(s, j + 1) + 1)
             ELSE ParseMembers(s, j + 1, << >>))
        ELSE IF StartsWith(SubSeq(s, j, Len(s)), "null") THEN Parsed(JNull, j + 4)
        ELSE IF StartsWith(SubSeq(s, j, Len(s)), "true") THEN Parsed(JBool(TRUE), j + 4)
        ELSE IF StartsWith(SubSeq(s, j, Len(s)), "false") THEN Parsed(JBool(FALSE), j + 5)
        ELSE IF ch = "-" \/ DigitValue(ch, 10) >= 0 THEN ParseNumber(s, j)
        ELSE SyntaxError

\* JSON.parse(text): the value, or a SyntaxError
JsonParse(text) ==
    LET r == ParseValue(text, 1)
    IN  IF r.ok /\ SkipBlanks(text, r.next) = Len(text) + 1
        THEN [ok |-> TRUE, val |-> r.val]
        ELSE [ok |-> FALSE, val |-> Undefined]

(***************************************************************************)
(* prefetch-service.ts: the pure parts.                                    *)
(***************************************************************************)

\* outcome of a call: a returned route list, or a thrown error / rejection
Ok(routes) == [ok |-> TRUE, routes |-> routes]
Threw == [ok |-> FALSE, routes |-> << >>]

\* paths.length for an array or a string
JsLength(paths) == Len(paths.v)

\* variant: paths[0], the oldest entry
FirstElement(paths) ==
    IF Len(paths.v) = 0 THEN Undefined
    ELSE IF paths.t = "str" THEN JStr(CharAt(paths.v, 1))
    ELSE paths.v[1]

\* paths[paths.length - 1] for an array or a string; undefined when empty
LastElement(paths) ==
    IF Len(paths.v) = 0 THEN Undefined
    ELSE IF paths.t = "str" THEN JStr(CharAt(paths.v, Len(paths.v)))
    ELSE paths.v[Len(paths.v)]

\* variant: the empty-list early return is missing
NoPathsNeverEmpty(paths) == ~Truthy(paths)

\* `!paths || paths.length === 0`
NoPaths(paths) == ~Truthy(paths) \/ JsLength(paths) = 0

\* variant: the fallback without its first rule: "/" takes the default row
FallbackPredictionsNoRootRule(paths) ==
    LET last == LastElement(paths)
    IN  IF last.t # "str" THEN Threw
        ELSE IF StartsWith(last.v, "/category/") THEN
            Ok(<< "/category/" \o Split(last.v, "/")[3], "/product/1", "/product/2" >>)
        ELSE IF StartsWith(last.v, "/product/") THEN
            Ok(<< "/category/1",
                  "/product/" \o NumberToString(PlusOne(ParseInt(Split(last.v, "/")[3]))),
                  "/" >>)
        ELSE IF last.v = "/profile" THEN Ok(<< "/", "/category/1", "/category/2" >>)
        ELSE Ok(<< "/", "/category/1", "/profile" >>)

\* The rule-based fallback inside getPredictedRoutes.  A last path that is
\* not a string has no startsWith method: the call throws a TypeError.
FallbackPredictions(paths) ==
    LET last == LastElement(paths)
        lastPath == last.v
    IN  IF last.t # "str" THEN Threw
        ELSE IF lastPath = "/" THEN
            Ok(SliceFirst(<< "/category/1", "/category/2", "/profile" >>, 3))
        ELSE IF StartsWith(lastPath, "/category/") THEN
            LET categoryId == Split(lastPath, "/")[3]
            IN  Ok(SliceFirst(<< "/category/" \o categoryId,
                                 "/product/1", "/product/2" >>, 3))
        ELSE IF StartsWith(lastPath, "/product/") THEN
            LET productId == Split(lastPath, "/")[3]
            IN  Ok(SliceFirst(<< "/category/1",
                                 "/product/" \o NumberToString(PlusOne(ParseInt(productId))),
                                 "/" >>, 3))
        ELSE IF lastPath = "/profile" THEN
            Ok(SliceFirst(<< "/", "/category/1", "/category/2" >>, 3))
        ELSE
            Ok(SliceFirst(<< "/", "/category/1", "/profile" >>, 3))

\* The rule-based-only getPredictedRoutes (the predictor with no model).
RuleBasedPredictor(paths) ==
    IF NoPaths(paths) THEN Ok(<< >>)
    ELSE
    LET last == LastElement(paths)
        lastPath == last.v
        predictions ==
            IF lastPath = "/" THEN
                << "/category/1", "/category/2", "/profile" >>
            ELSE IF StartsWith(lastPath, "/category/") THEN
                << "/category/" \o Split(lastPath, "/")[3],
                   "/product/1", "/product/2" >>
            ELSE IF StartsWith(lastPath, "/product/") THEN
                << "/category/1",
                   "/product/" \o NumberToString(
                       PlusOne(ParseInt(Split(lastPath, "/")[3]))),
                   "/" >>
            ELSE IF lastPath = "/profile" THEN
                << "/", "/category/1", "/category/2" >>
            ELSE
                << "/", "/category/1", "/profile" >>
    IN  IF last.t # "str" THEN Threw ELSE Ok(SliceFirst(predictions, 3))

\* variant: the vocabulary itself is used as its reverse
ReverseVocabUnswapped(v) == v

\* reverseVocab = Object.fromEntries(Object.entries(vocab).map(([k, v]) => [v, k]))
RECURSIVE FromSwappedEntries(_, _)
FromSwappedEntries(entries, acc) ==
    IF entries = << >> THEN acc
    ELSE FromSwappedEntries(Tail(entries),
            SetProp(acc, ToPropertyKey(Head(entries)[2]), JStr(Head(entries)[1])))

ReverseVocabOf(v) == FromSwappedEntries(v.v, JObj(<< >>))

\* sequence.unshift(pad) until the sequence has 5 elements
RECURSIVE PadTo5(_, _)
PadTo5(sequence, pad) ==
    IF Len(sequence) < 5 THEN PadTo5(<< pad >> \o sequence, pad) ELSE sequence

\* pathsToSequence(paths) for an array; v is the vocabulary
PathsToSequence(paths, v) ==
    IF ~Truthy(v) THEN << >>
    ELSE
    LET recentPaths == SliceLast(paths.v, 5)
        sequence == [i \in 1..Len(recentPaths) |->
                       Coalesce(Coalesce(GetProp(v, ToPropertyKey(recentPaths[i])),
                                         GetProp(v, "<UNK>")),
                                JNum(0))]
    IN  SliceLast(PadTo5(sequence, Coalesce(GetProp(v, "<PAD>"), JNum(0))), 5)

\* variant: the reserved tokens are not filtered out
RECURSIVE RoutesFromIndicesUnfiltered(_, _, _)
RoutesFromIndicesUnfiltered(topIndices, rv, i) ==
    IF ~(i <= 3 /\ i <= Len(topIndices)) THEN << >>
    ELSE
    LET route == GetProp(rv, NumberToString(Num(topIndices[i])))
    IN  (IF Truthy(route) THEN << route.v >> ELSE << >>)
        \o RoutesFromIndicesUnfiltered(topIndices, rv, i + 1)

\* variant: among equal values the higher index comes first
RECURSIVE TopKTiesHighest(_, _, _)
TopKTiesHighest(values, k, taken) ==
    LET left == (1..Len(values)) \ taken
    IN  IF k = 0 \/ left = {} THEN << >>
        ELSE LET best == CHOOSE i \in left : \A j \in left :
                            \/ values[i] > values[j]
                            \/ values[i] = values[j] /\ i >= j
             IN  << best - 1 >> \o TopKTiesHighest(values, k - 1, taken \cup {best})

\* the indices of tf.topk(values, k) for one row of values, positions
\* counted from 0 as class ids are: the k largest entries, largest first; of
\* two equal entries the one with the lower index comes first (the order
\* TensorFlow documents for top-k); `taken` holds the positions already out
RECURSIVE TopK(_, _, _)
TopK(values, k, taken) ==
    LET left == (1..Len(values)) \ taken
    IN  IF k = 0 \/ left = {} THEN << >>
        ELSE LET best == CHOOSE i \in left : \A j \in left :
                            \/ values[i] > values[j]
                            \/ values[i] = values[j] /\ i <= j
             IN  << best - 1 >> \o TopK(values, k - 1, taken \cup {best})

\* predictWithModel, from the top-k indices to route strings
RECURSIVE RoutesFromIndices(_, _, _)
RoutesFromIndices(topIndices, rv, i) ==
    IF ~(i <= 3 /\ i <= Len(topIndices)) THEN << >>
    ELSE
    LET route == GetProp(rv, NumberToString(Num(topIndices[i])))
        keep == Truthy(route) /\ route.v # "<PAD>" /\ route.v # "<UNK>"
    IN  (IF keep THEN << route.v >> ELSE << >>)
        \o RoutesFromIndices(topIndices, rv, i + 1)

(***************************************************************************)
(* Bounds and the environment the service runs in.                         *)
(***************************************************************************)

\* number of concurrent callers of getPredictedRoutes
NumCallers == 2

\* instrumentation counters stop counting here
CounterCap == 3

\* number of classes of the model's softmax output (ids 0..NumClasses-1)
NumClasses == 5

Callers == 1..NumCallers

\* contents vocab.json can have: JSON null, an empty object, or a vocabulary
\* with the two reserved tokens
VocabFiles ==
    { JNull,
      JObj(<< >>),
      JObj(<< << "<PAD>", JNum(0) >>, << "<UNK>", JNum(1) >>,
              << "/", JNum(2) >>, << "/category/1", JNum(3) >>,
              << "/profile", JNum(4) >> >>) }

\* what vocabResponse.json() can do: throw, or yield a file's content
VocabJsonOutcomes ==
    { [threw |-> TRUE, content |-> JNull] }
    \cup { [threw |-> FALSE, content |-> f] : f \in VocabFiles }

\* argument lists direct callers pass to getPredictedRoutes
PathInputs ==
    { StrArr(<< >>),
      StrArr(<< "/" >>),
      StrArr(<< "/a", "/b", "/c", "/d", "/", "/category/1", "/product/7" >>) }

\* what tf.topk(predictions, 3) can hand back: 3 distinct class ids
TopKOutcomes ==
    { idx \in [1..3 -> 0..(NumClasses - 1)] :
        idx[1] # idx[2] /\ idx[1] # idx[3] /\ idx[2] # idx[3] }

\* one inference: it throws, or it yields top-k indices
InferenceOutcomes ==
    { [threw |-> TRUE, topIndices |-> << >>] }
    \cup { [threw |-> FALSE, topIndices |-> idx] : idx \in TopKOutcomes }

(***************************************************************************)
(* State.                                                                  *)
(***************************************************************************)
VARIABLES
    tf,               \* the runtime module, or null
    tfLoadPromise,    \* "null", "pending", "true", "false"
    model,            \* the loaded LayersModel, or null
    vocab,            \* the vocabulary object, or null
    reverseVocab,     \* id -> route object, or null
    modelLoadPromise, \* "null", "pending", "resolved"
    loaderPc,         \* where the async body of loadModel stands
    loadBodyRuns,     \* times the async body of loadModel was started
    tfImports,        \* times import('@tensorflow/tfjs-node') was started
    modelLoads,       \* times tf.loadLayersModel was started
    vocabFetches,     \* times fetch(vocabUrl) was started
    pc,               \* per caller: position inside getPredictedRoutes
    paths,            \* per caller: the argument of the call
    returned,         \* the most recent completed call
    cookieJar,        \* the visitor's path-history cookie, or undefined
    request,          \* the request the middleware is handling, if any
    response,         \* the most recent response of the middleware
    requestCount,     \* requests answered so far
    immediateQueue,   \* callbacks scheduled with setImmediate
    probesIssued,     \* URLs probed by the latest setImmediate callback
    probesSettled,    \* how many of those probes have settled, either way
    probeResponses,   \* what the middleware answered to those probes, if asked
    requestHeaders,   \* headers the visitor's browser sends with each request
    runtime,          \* the runtime the middleware is deployed on
    browser,          \* the page as loaded in the browser, and its clock
    client,           \* the mounted PrefetchClient component
    ruleInput,        \* a path history handed to the rule-based code alone
    ruleOutput,       \* what the rule-based code returned for it, if run
    apiRequest,       \* the POST /api/prefetch request being handled, if any
    apiResponse,      \* the most recent response of POST /api/prefetch
    metricsStore,     \* web-vitals route: the in-memory sample list
    metricsFile,      \* the text of metrics-store.json, or undefined
    writeErrors,      \* "Error saving metrics to file" log entries so far
    posts,            \* per slot: a POST /api/web-vitals request and its answer
    lastGet           \* the most recent answer of GET /api/web-vitals

serviceVars == << tf, tfLoadPromise, model, vocab, reverseVocab,
                  modelLoadPromise, loaderPc, loadBodyRuns, tfImports,
                  modelLoads, vocabFetches, pc, paths, returned >>

handleVars == << tf, tfLoadPromise, model, vocab, reverseVocab,
                 modelLoadPromise, loaderPc, loadBodyRuns, tfImports,
                 modelLoads, vocabFetches >>

mwVars == << cookieJar, request, response, requestCount, immediateQueue,
            probesIssued, probesSettled, probeResponses >>

envVars == << requestHeaders, runtime >>

clientVars == << browser, client >>

ruleVars == << ruleInput, ruleOutput >>

apiVars == << apiRequest, apiResponse >>

vitalsVars == << metricsStore, metricsFile, writeErrors, posts, lastGet >>

vars == << tf, tfLoadPromise, model, vocab, reverseVocab, modelLoadPromise,
           loaderPc, loadBodyRuns, tfImports, modelLoads, vocabFetches, pc,
           paths, returned, cookieJar, request, response, requestCount,
           immediateQueue, probesIssued, probesSettled, probeResponses,
           requestHeaders, runtime, browser, client, ruleInput, ruleOutput,
           apiRequest, apiResponse, metricsStore, metricsFile, writeErrors,
           posts, lastGet >>

Inc(n) == IF n < CounterCap THEN n + 1 ELSE n

TfModule == [t |-> "tfjs"]
LayersModel == [t |-> "LayersModel"]
NoCall == [calls |-> 0]
NoRequest == [active |-> FALSE]
NoResponse == [sent |-> FALSE]
NotRun == [fn |-> "none"]
NoPage == [open |-> FALSE]
NotMounted == [mounted |-> FALSE]

\* request headers of a browser that sends no user-agent and nothing forged
PlainHeaders == [userAgent |-> "", prefetchRoutes |-> Undefined]

\* module-level initialisers
InitService ==
    /\ tf = JNull
    /\ tfLoadPromise = "null"
    /\ model = JNull
    /\ vocab = JNull
    /\ reverseVocab = JNull
    /\ modelLoadPromise = "null"
    /\ loaderPc = "none"
    /\ loadBodyRuns = 0
    /\ tfImports = 0
    /\ modelLoads = 0
    /\ vocabFetches = 0
    /\ pc = [c \in Callers |-> "idle"]
    /\ paths = [c \in Callers |-> JNull]
    /\ returned = NoCall

\* no visitor traffic yet
InitMiddleware ==
    /\ request = NoRequest
    /\ response = NoResponse
    /\ requestCount = 0
    /\ immediateQueue = << >>
    /\ probesIssued = << >>
    /\ probesSettled = 0
    /\ probeResponses = << >>

\* no page is open in a browser
InitClientIdle ==
    /\ browser = NoPage
    /\ client = NotMounted

\* number of POST /api/web-vitals requests that can be in flight at once
NumPosts == 2

PostSlots == 1..NumPosts

NoApiRequest == [active |-> FALSE]
NoApiResponse == [sent |-> FALSE]
NoPost == [pc |-> "none"]
NoGet == [sent |-> FALSE]

\* no request has reached POST /api/prefetch
InitApiIdle ==
    /\ apiRequest = NoApiRequest
    /\ apiResponse = NoApiResponse

\* the web-vitals route has not been loaded
InitVitalsIdle ==
    /\ metricsStore = JArr(<< >>)
    /\ metricsFile = Undefined
    /\ writeErrors = 0
    /\ posts = [slot \in PostSlots |-> NoPost]
    /\ lastGet = NoGet

\* the rule-based code is not being exercised on its own
InitRuleIdle ==
    /\ ruleInput = JNull
    /\ ruleOutput = NotRun

\* the load state of section 4.4, read off the module variables
LoadState ==
    IF modelLoadPromise = "null" THEN "UNINITIALIZED"
    ELSE IF modelLoadPromise = "pending" THEN "LOADING"
    ELSE IF Truthy(model) /\ Truthy(vocab) THEN "READY"
    ELSE "UNAVAILABLE"

(***************************************************************************)
(* loadTensorFlow and loadModel.                                           *)
(***************************************************************************)

\* variant: the early return looks at the model alone
AlreadyLoadedModelOnly == Truthy(model)

\* loadModel: `if (model && vocab) return`
AlreadyLoaded == Truthy(model) /\ Truthy(vocab)

\* variant: the in-flight promise is not memoized
LoadInProgressNotMemoized == FALSE

\* variant: a settled load is retried by the next call
LoadInProgressRetry == modelLoadPromise = "pending"

\* loadModel: `if (modelLoadPromise) return modelLoadPromise`
LoadInProgress == modelLoadPromise # "null"

\* loadTensorFlow, called by the async body of loadModel: start the dynamic
\* import unless the runtime is there or an import is already in flight
LoadTensorFlow ==
    IF Truthy(tf) \/ tfLoadPromise # "null"
    THEN UNCHANGED << tfLoadPromise, tfImports >>
    ELSE /\ tfLoadPromise' = "pending"
         /\ tfImports' = Inc(tfImports)

\* loadModel as run by one caller, up to its first suspension
LoadModel ==
    IF AlreadyLoaded \/ LoadInProgress
    THEN UNCHANGED handleVars
    ELSE /\ modelLoadPromise' = "pending"
         /\ loadBodyRuns' = Inc(loadBodyRuns)
         /\ loaderPc' = "awaitTf"
         /\ LoadTensorFlow
         /\ UNCHANGED << tf, model, vocab, reverseVocab, modelLoads, vocabFetches >>

\* the load body runs to its end: the promise of loadModel resolves
Settle ==
    /\ modelLoadPromise' = "resolved"
    /\ loaderPc' = "settled"

\* the dynamic import settles
TfImportSettle(ok) ==
    /\ tfLoadPromise = "pending"
    /\ tf' = IF ok THEN TfModule ELSE JNull
    /\ tfLoadPromise' = IF ok THEN "true" ELSE "false"
    /\ UNCHANGED << model, vocab, reverseVocab, modelLoadPromise, loaderPc,
                    loadBodyRuns, tfImports, modelLoads, vocabFetches,
                    pc, paths, returned, mwVars, ruleVars, envVars, apiVars, vitalsVars, clientVars >>

\* the load body resumes after `await loadTensorFlow()`
LoaderAfterTf ==
    /\ loaderPc = "awaitTf"
    /\ Truthy(tf) \/ tfLoadPromise \in {"true", "false"}
    /\ LET tfLoaded == Truthy(tf) \/ tfLoadPromise = "true"
       IN  IF ~tfLoaded \/ ~Truthy(tf)
           THEN /\ model' = JNull
                /\ vocab' = JNull
                /\ reverseVocab' = JNull
                /\ Settle
                /\ UNCHANGED modelLoads
           ELSE /\ modelLoads' = Inc(modelLoads)
                /\ loaderPc' = "loadingModel"
                /\ UNCHANGED << model, vocab, reverseVocab, modelLoadPromise >>
    /\ UNCHANGED << tf, tfLoadPromise, loadBodyRuns, tfImports, vocabFetches,
                    pc, paths, returned, mwVars, ruleVars, envVars, apiVars, vitalsVars, clientVars >>

\* tf.loadLayersModel settles; the body goes on to fetch the vocabulary
ModelLoadSettle(ok) ==
    /\ loaderPc = "loadingModel"
    /\ model' = IF ok THEN LayersModel ELSE JNull
    /\ vocabFetches' = Inc(vocabFetches)
    /\ loaderPc' = "fetchingVocab"
    /\ UNCHANGED << tf, tfLoadPromise, vocab, reverseVocab, modelLoadPromise,
                    loadBodyRuns, tfImports, modelLoads, pc, paths, returned, mwVars, ruleVars, envVars, apiVars, vitalsVars, clientVars >>

\* fetch(vocabUrl) settles: rejected, answered not-ok, or answered ok
VocabFetchSettle(outcome) ==
    /\ loaderPc = "fetchingVocab"
    /\ CASE outcome = "rejected" ->
              /\ vocab' = JNull
              /\ reverseVocab' = JNull
              /\ Settle
         [] outcome = "notOk" ->
              /\ Settle
              /\ UNCHANGED << vocab, reverseVocab >>
         [] outcome = "ok" ->
              /\ loaderPc' = "parsingVocab"
              /\ UNCHANGED << vocab, reverseVocab, modelLoadPromise >>
    /\ UNCHANGED << tf, tfLoadPromise, model, loadBodyRuns, tfImports,
                    modelLoads, vocabFetches, pc, paths, returned, mwVars, ruleVars, envVars, apiVars, vitalsVars, clientVars >>

\* vocabResponse.json() settles: it throws, or yields the file's content
VocabJsonSettle(outcome) ==
    /\ loaderPc = "parsingVocab"
    /\ IF outcome.threw
       THEN /\ vocab' = JNull
            /\ reverseVocab' = JNull
       ELSE /\ vocab' = outcome.content
            /\ reverseVocab' = IF Truthy(outcome.content)
                               THEN ReverseVocabOf(outcome.content)
                               ELSE reverseVocab
    /\ Settle
    /\ UNCHANGED << tf, tfLoadPromise, model, loadBodyRuns, tfImports,
                    modelLoads, vocabFetches, pc, paths, returned, mwVars, ruleVars, envVars, apiVars, vitalsVars, clientVars >>

(***************************************************************************)
(* predictWithModel and getPredictedRoutes.                                *)
(***************************************************************************)

\* predictWithModel: `if (!model || !vocab || !reverseVocab || !tf) return []`
ModelUnusable ==
    ~Truthy(model) \/ ~Truthy(vocab) \/ ~Truthy(reverseVocab) \/ ~Truthy(tf)

\* predictWithModel before its first await: TRUE when inference gets started.
\* A paths value that is a string has no map method: the TypeError is caught
\* and the function returns [].
InferenceStarts(p) ==
    /\ ~ModelUnusable
    /\ p.t = "arr"
    /\ Len(PathsToSequence(p, vocab)) = 5

\* variant: the inference error is not caught
PredictWithModelNoCatch(outcome) ==
    IF outcome.threw THEN Threw
    ELSE Ok(RoutesFromIndices(outcome.topIndices, reverseVocab, 1))

\* predictWithModel after inference: the catch turns a throw into []
PredictWithModel(outcome) ==
    IF outcome.threw THEN Ok(<< >>)
    ELSE Ok(RoutesFromIndices(outcome.topIndices, reverseVocab, 1))

\* variant: a short model result is topped up from the rule-based list
AfterModelToppedUp(p, modelPredictions) ==
    IF Len(modelPredictions) > 0
    THEN Ok(SliceFirst(modelPredictions \o FallbackPredictions(p).routes, 3))
    ELSE FallbackPredictions(p)

\* getPredictedRoutes from `if (modelPredictions.length > 0)` on
AfterModel(p, modelPredictions) ==
    IF Len(modelPredictions) > 0 THEN Ok(SliceFirst(modelPredictions, 3))
    ELSE FallbackPredictions(p)

\* the record of a completed call
Completed(c, p, usedModel, threw, modelPredictions, result) ==
    [calls |-> 1, paths |-> p, loadState |-> LoadState,
     usedModel |-> usedModel, inferenceThrew |-> threw,
     modelPredictions |-> modelPredictions, result |-> result]

\* getPredictedRoutes(p) up to its first suspension
CallBody(c, p) ==
    /\ pc[c] = "idle"
    /\ IF NoPaths(p)
       THEN /\ returned' = Completed(c, p, FALSE, FALSE, << >>, Ok(<< >>))
            /\ UNCHANGED << pc, paths >>
            /\ UNCHANGED handleVars
       ELSE /\ pc' = [pc EXCEPT ![c] = IF AlreadyLoaded THEN "resume"
                                       ELSE "awaitLoad"]
            /\ paths' = [paths EXCEPT ![c] = p]
            /\ LoadModel
            /\ UNCHANGED returned

\* the call ends: hand the result back and forget the locals
Finish(c, usedModel, threw, modelPredictions, result) ==
    /\ returned' = Completed(c, paths[c], usedModel, threw, modelPredictions, result)
    /\ pc' = [pc EXCEPT ![c] = "idle"]
    /\ paths' = [paths EXCEPT ![c] = JNull]

\* variant: the awaited promise is fulfilled only by a successful load
AwaitedLoadDoneOnSuccess ==
    modelLoadPromise = "resolved" /\ Truthy(model) /\ Truthy(vocab)

\* `await loadModel()` on the in-flight promise: the load body catches every
\* error, so the promise is fulfilled when the body ends, whatever happened
AwaitedLoadDone == modelLoadPromise = "resolved"

\* getPredictedRoutes resumes after `await loadModel()`
ResumeBody(c) ==
    /\ \/ pc[c] = "resume"
       \/ pc[c] = "awaitLoad" /\ AwaitedLoadDone
    /\ IF Truthy(model) /\ Truthy(vocab)
       THEN IF InferenceStarts(paths[c])
            THEN /\ pc' = [pc EXCEPT ![c] = "inferring"]
                 /\ UNCHANGED << paths, returned >>
            ELSE Finish(c, TRUE, FALSE, << >>, AfterModel(paths[c], << >>))
       ELSE Finish(c, FALSE, FALSE, << >>, FallbackPredictions(paths[c]))
    /\ UNCHANGED handleVars

\* model.predict / tf.topk / array() settle and predictWithModel returns
InferFinishBody(c, outcome) ==
    /\ pc[c] = "inferring"
    /\ LET mp == PredictWithModel(outcome)
       IN  Finish(c, TRUE, outcome.threw, mp.routes,
                  IF mp.ok THEN AfterModel(paths[c], mp.routes) ELSE Threw)
    /\ UNCHANGED handleVars

\* a direct caller (an API route, a server component) makes these steps
Call(c, p) == CallBody(c, p) /\ UNCHANGED << mwVars, ruleVars, envVars, apiVars, vitalsVars, clientVars >>
Resume(c) == ResumeBody(c) /\ UNCHANGED << mwVars, ruleVars, envVars, apiVars, vitalsVars, clientVars >>
InferFinish(c, outcome) ==
    InferFinishBody(c, outcome) /\ UNCHANGED << mwVars, ruleVars, envVars, apiVars, vitalsVars, clientVars >>

(***************************************************************************)
(* The service under concurrent direct callers.                            *)
(***************************************************************************)
Init ==
    /\ InitService
    /\ InitApiIdle
    /\ InitVitalsIdle
    /\ InitMiddleware
    /\ InitRuleIdle
    /\ InitClientIdle
    /\ cookieJar = Undefined
    /\ requestHeaders = PlainHeaders
    /\ runtime = "nodejs"

Next ==
    \/ \E c \in Callers, p \in PathInputs : Call(c, p)
    \/ \E c \in Callers : Resume(c)
    \/ \E c \in Callers, o \in InferenceOutcomes : InferFinish(c, o)
    \/ \E ok \in BOOLEAN : TfImportSettle(ok)
    \/ LoaderAfterTf
    \/ \E ok \in BOOLEAN : ModelLoadSettle(ok)
    \/ \E o \in {"rejected", "notOk", "ok"} : VocabFetchSettle(o)
    \/ \E o \in VocabJsonOutcomes : VocabJsonSettle(o)

Spec == Init /\ [][Next]_vars

(***************************************************************************)
(* middleware.ts, section 5 (AI prefetch integration) and the update of    *)
(* the path-history cookie, with prewarmCDNCache of prefetch-service.ts.   *)
(* Sections 1-4, 6 and 7 of the middleware set cookies and headers that    *)
(* neither read nor write anything modelled here.                          *)
(***************************************************************************)

\* requests one visitor sends
MaxRequests == 2

\* recentPaths = history.slice(-5)
ContextWindow == 5

\* `if (recentPaths.length >= 3)`
MinHistory == 3

\* history.slice(-10)
HistoryCap == 10

\* `${request.nextUrl.protocol}//${request.nextUrl.host}`
BaseUrl == "http://localhost:3000"

\* the caller slot a middleware request uses
MwCaller == CHOOSE c \in Callers : \A d \in Callers : c <= d

\* pathnames the visitor requests
RequestPaths == { "/", "/product/7", "/about" }

\* a visit log of n entries that ends with the given routes
LogOf(n, ending) ==
    [i \in 1..n |-> IF i + Len(ending) > n THEN ending[i + Len(ending) - n]
                    ELSE "/p" \o NatToString(i)]

\* path-history cookies the first request can carry: none, an empty value,
\* malformed or non-array JSON, and well-formed logs below, at and above the
\* cap (a cookie is client-held, its content is the client's choice)
InitialCookies ==
    { Undefined,
      JStr(""),
      JStr("not json"),
      JStr("{\"a\":1}"),
      JStr("\"abc\""),
      JStr("[1,2,3]"),
      JStr(JsonStringify(StrArr(<< "/" >>))),
      JStr(JsonStringify(StrArr(<< "/about", "/profile", "/" >>))),
      JStr(JsonStringify(StrArr(LogOf(9, << "/category/1", "/product/abc" >>)))),
      JStr(JsonStringify(StrArr(LogOf(10, << "/product/7" >>)))),
      JStr(JsonStringify(StrArr(LogOf(12, << "/" >>)))) }

\* inference outcomes met by the visitor's requests: a throw, three usable
\* routes, and one usable route next to the two reserved ids
VisitorInferenceOutcomes ==
    { o \in InferenceOutcomes :
        o.threw \/ o.topIndices \in { << 2, 3, 4 >>, << 0, 1, 2 >> } }

\* `request.cookies.get('path-history')?.value || '[]'`
PathHistoryOf(cookie) ==
    IF cookie.t = "undefined" \/ cookie.v = "" THEN "[]" ELSE cookie.v

\* value.slice(-n) for an array or a string
JsSliceLast(value, n) ==
    IF value.t = "str" THEN JStr(SliceLast(value.v, n))
    ELSE JArr(SliceLast(value.v, n))

\* `JSON.parse(pathHistory)` then `history.slice(-5)`: a value that is neither
\* an array nor a string has no slice method, the TypeError lands in the catch
RecentPaths(pathHistory) ==
    LET history == JsonParse(pathHistory)
    IN  IF history.ok /\ history.val.t \in {"arr", "str"}
        THEN [ok |-> TRUE, val |-> JsSliceLast(history.val, ContextWindow)]
        ELSE [ok |-> FALSE, val |-> Undefined]

\* a gate that opens for any non-empty history
PredictionGateAny(recentPaths) == JsLength(recentPaths) >= Len(<< "/" >>)

\* the prediction gate of the middleware
PredictionGate(recentPaths) == JsLength(recentPaths) >= MinHistory

\* an update that keeps the oldest entries instead of the newest
UpdatedHistoryKeepsOldest(pathHistory, currentPath) ==
    LET history == JsonParse(pathHistory)
    IN  IF history.ok /\ history.val.t = "arr"
        THEN JsonStringify(
                JArr(SliceFirst(Append(history.val.v, JStr(currentPath)), HistoryCap)))
        ELSE JsonStringify(StrArr(<< currentPath >>))

\* "Update path history": parse again, push the current path, keep the last
\* 10; when parse or push throws, the cookie restarts from the current path
UpdatedHistory(pathHistory, currentPath) ==
    LET history == JsonParse(pathHistory)
    IN  IF history.ok /\ history.val.t = "arr"
        THEN JsonStringify(
                JArr(SliceLast(Append(history.val.v, JStr(currentPath)), HistoryCap)))
        ELSE JsonStringify(StrArr(<< currentPath >>))

\* the URL prewarmCDNCache probes for a route
ProbeUrl(baseUrl, route) ==
    baseUrl \o (IF StartsWith(route, "/") THEN route ELSE "/" \o route)

\* setImmediate is a Node.js global; the Edge Runtime does not define it
SetImmediateDefined == runtime = "nodejs"

\* a prewarm that schedules nothing
PrewarmCDNCacheDropped(routes, baseUrl) ==
    UNCHANGED << immediateQueue, probesIssued, probesSettled >>

\* a prewarm that schedules the first route only
PrewarmCDNCacheFirstOnly(routes, baseUrl) ==
    IF Len(routes) = 0 \/ ~SetImmediateDefined
    THEN UNCHANGED << immediateQueue, probesIssued, probesSettled >>
    ELSE /\ immediateQueue' =
                Append(immediateQueue,
                       [routes |-> << Head(routes) >>, baseUrl |-> baseUrl])
         /\ UNCHANGED << probesIssued, probesSettled >>

\* a prewarm that starts its probes inside the call instead of deferring them
PrewarmCDNCacheInline(routes, baseUrl) ==
    IF Len(routes) = 0
    THEN UNCHANGED << immediateQueue, probesIssued, probesSettled >>
    ELSE /\ probesIssued' =
                [i \in 1..Len(routes) |-> ProbeUrl(baseUrl, routes[i])]
         /\ probesSettled' = 0
         /\ UNCHANGED immediateQueue

\* prewarmCDNCache(routes, baseUrl): schedule the probes with setImmediate;
\* the call itself starts no fetch.  Where setImmediate is not defined the
\* call throws inside the async function: the promise rejects and the
\* caller's .catch swallows it.
PrewarmCDNCache(routes, baseUrl) ==
    IF Len(routes) = 0 \/ ~SetImmediateDefined
    THEN UNCHANGED << immediateQueue, probesIssued, probesSettled >>
    ELSE /\ immediateQueue' =
                Append(immediateQueue, [routes |-> routes, baseUrl |-> baseUrl])
         /\ UNCHANGED << probesIssued, probesSettled >>

\* `/mobile|android|iphone|ipad/i.test(userAgent)`, for lower-case agents
IsMobile(userAgent) ==
    \E word \in {"mobile", "android", "iphone", "ipad"} : Includes(userAgent, word)

\* `/tablet|ipad/i.test(userAgent)`, for lower-case agents
IsTablet(userAgent) ==
    \E word \in {"tablet", "ipad"} : Includes(userAgent, word)

\* the X-Device-Type header
DeviceType(userAgent) ==
    IF IsMobile(userAgent) THEN "mobile"
    ELSE IF IsTablet(userAgent) THEN "tablet"
    ELSE "desktop"

\* the Cache-Control and CDN-Cache-Control headers
CacheControl(userAgent) ==
    IF IsMobile(userAgent)
    THEN "public, s-maxage=60, stale-while-revalidate=120"
    ELSE "public, s-maxage=300, stale-while-revalidate=600"

\* variant: an injector that embeds whatever header text it is handed
PrefetchRoutesInjectorUnchecked(prefetchRoutesHeader) ==
    IF ~Truthy(prefetchRoutesHeader) THEN Undefined
    ELSE JStr(prefetchRoutesHeader.v)

\* PrefetchRoutesInjector: the text of script#__NEXT_PREFETCH_ROUTES__, or
\* undefined when the component renders null.  Its argument is what
\* headers().get('x-prefetch-routes') yields.
PrefetchRoutesInjector(prefetchRoutesHeader) ==
    IF ~Truthy(prefetchRoutesHeader) THEN Undefined
    ELSE LET routes == JsonParse(prefetchRoutesHeader.v)
         IN  IF ~routes.ok THEN Undefined
             ELSE IF routes.val.t # "arr" \/ Len(routes.val.v) = 0 THEN Undefined
             ELSE JStr(JsonStringify(routes.val))

\* headers() of next/headers in a server component: the headers of the
\* incoming request.  NextResponse.next() forwards them unchanged; what the
\* middleware sets on its response goes to the browser, not to the renderer.
RenderHeadersGet(name) ==
    IF name = "x-prefetch-routes" THEN requestHeaders.prefetchRoutes
    ELSE IF name = "user-agent" THEN
            (IF requestHeaders.userAgent = "" THEN Undefined
             ELSE JStr(requestHeaders.userAgent))
    ELSE Undefined

\* the X-Prefetch-Routes response header that always gets set
PrefetchHeaderAlways(predictedRoutes) ==
    JStr(JsonStringify(StrArr(predictedRoutes)))

\* the X-Prefetch-Routes response header, undefined when it is not set
PrefetchHeader(predictedRoutes) ==
    IF Len(predictedRoutes) > 0
    THEN JStr(JsonStringify(StrArr(predictedRoutes)))
    ELSE Undefined

\* a history update that is skipped when there is no prediction
UpdatedHistoryOnSuccess(pathHistory, currentPath, predictedRoutes) ==
    IF Len(predictedRoutes) > 0 THEN UpdatedHistory(pathHistory, currentPath)
    ELSE pathHistory

\* the path-history cookie of the response: the prediction plays no part
PathHistoryCookie(pathHistory, currentPath, predictedRoutes) ==
    UpdatedHistory(pathHistory, currentPath)

\* the middleware from the point where predictedRoutes is known to its
\* return; the browser stores the cookie of the response
Respond(pathHistory, currentPath, predictedRoutes) ==
    /\ IF Len(predictedRoutes) > 0
       THEN PrewarmCDNCache(predictedRoutes, BaseUrl)
       ELSE UNCHANGED << immediateQueue, probesIssued, probesSettled >>
    /\ response' =
         [sent |-> TRUE,
          priorHistory |-> pathHistory,
          currentPath |-> currentPath,
          predictedRoutes |-> predictedRoutes,
          prefetchHeader |-> PrefetchHeader(predictedRoutes),
          pathHistoryCookie |->
              PathHistoryCookie(pathHistory, currentPath, predictedRoutes),
          deviceType |-> DeviceType(requestHeaders.userAgent),
          cacheControl |-> CacheControl(requestHeaders.userAgent),
          island |-> PrefetchRoutesInjector(RenderHeadersGet("x-prefetch-routes"))]
    /\ cookieJar' = JStr(response'.pathHistoryCookie)
    /\ requestCount' = requestCount + 1
    /\ request' = NoRequest
    /\ UNCHANGED probeResponses

\* what the middleware keeps of a settled getPredictedRoutes: the routes, or
\* the initial [] when the call threw
PredictedRoutesOf(result) == IF result.ok THEN result.routes ELSE << >>

\* a prediction input taken after the current path has joined the history
PredictionInputWithCurrent(pathHistory, currentPath) ==
    RecentPaths(UpdatedHistory(pathHistory, currentPath))

\* the argument of getPredictedRoutes: the last 5 entries of the cookie as
\* received; request.nextUrl.pathname is read only after the prediction,
\* for the history update
PredictionInput(pathHistory, currentPath) == RecentPaths(pathHistory)

\* a request arrives: the middleware runs up to `await getPredictedRoutes`,
\* or to its end when the gate is closed or the cookie does not parse
MwReceive(currentPath) ==
    /\ ~request.active
    /\ pc[MwCaller] = "idle"
    /\ requestCount < MaxRequests
    /\ LET pathHistory == PathHistoryOf(cookieJar)
           recentPaths == PredictionInput(pathHistory, currentPath)
       IN  IF recentPaths.ok /\ PredictionGate(recentPaths.val)
           THEN /\ CallBody(MwCaller, recentPaths.val)
                /\ request' = [active |-> TRUE, pathHistory |-> pathHistory,
                               currentPath |-> currentPath]
                /\ UNCHANGED << cookieJar, response, requestCount,
                                immediateQueue, probesIssued, probesSettled,
                                probeResponses >>
           ELSE /\ Respond(pathHistory, currentPath, << >>)
                /\ UNCHANGED serviceVars
    /\ UNCHANGED << ruleVars, envVars, apiVars, vitalsVars, clientVars >>

\* the awaited call resumes after the load; when it returns, so does the
\* middleware
MwResume ==
    /\ request.active
    /\ ResumeBody(MwCaller)
    /\ IF pc'[MwCaller] = "idle"
       THEN Respond(request.pathHistory, request.currentPath,
                    PredictedRoutesOf(returned'.result))
       ELSE UNCHANGED mwVars
    /\ UNCHANGED << ruleVars, envVars, apiVars, vitalsVars, clientVars >>

\* inference settles, the call returns, and so does the middleware
MwInferFinish(outcome) ==
    /\ request.active
    /\ InferFinishBody(MwCaller, outcome)
    /\ Respond(request.pathHistory, request.currentPath,
               PredictedRoutesOf(returned'.result))
    /\ UNCHANGED << ruleVars, envVars, apiVars, vitalsVars, clientVars >>

\* a setImmediate callback runs: one HEAD probe per route of the task
RunImmediate ==
    /\ immediateQueue # << >>
    /\ LET task == Head(immediateQueue)
       IN  probesIssued' =
              [i \in 1..Len(task.routes) |-> ProbeUrl(task.baseUrl, task.routes[i])]
    /\ probesSettled' = 0
    /\ probeResponses' = << >>
    /\ immediateQueue' = Tail(immediateQueue)
    /\ UNCHANGED << cookieJar, request, response, requestCount >>
    /\ UNCHANGED serviceVars
    /\ UNCHANGED << ruleVars, envVars, apiVars, vitalsVars, clientVars >>

\* the fetch of one probe settles: fulfilled or rejected, the outcome is
\* discarded by the .catch and by the async callback
ProbeSettle(outcome) ==
    /\ probesSettled < Len(probesIssued)
    /\ outcome \in {"fulfilled", "rejected"}
    /\ probesSettled' = probesSettled + 1
    /\ UNCHANGED << cookieJar, request, response, requestCount,
                    immediateQueue, probesIssued, probeResponses >>
    /\ UNCHANGED serviceVars
    /\ UNCHANGED << ruleVars, envVars, apiVars, vitalsVars, clientVars >>

(***************************************************************************)
(* One visitor's requests through the middleware.                          *)
(***************************************************************************)

\* a visitor with a three-entry log that ends at the home page
HomeVisitorCookie ==
    JStr(JsonStringify(StrArr(<< "/about", "/profile", "/" >>)))

\* an x-prefetch-routes value a client can put on its own request
ForgedPrefetchRoutes == { JStr("[\"/forged\"]") }

\* who visits and where the middleware runs: every cookie from a plain
\* browser on Node.js, and the home visitor on the Edge Runtime, from a
\* phone, and with a forged x-prefetch-routes request header
Visits ==
    { [cookie |-> c, headers |-> PlainHeaders, runtime |-> "nodejs"] :
        c \in InitialCookies }
    \cup { [cookie |-> HomeVisitorCookie, headers |-> PlainHeaders,
             runtime |-> "edge"] }
    \cup { [cookie |-> HomeVisitorCookie,
             headers |-> [userAgent |-> ua, prefetchRoutes |-> Undefined],
             runtime |-> "nodejs"] :
            ua \in {"mozilla/5.0 (iphone) mobile safari"} }
    \cup { [cookie |-> HomeVisitorCookie,
             headers |-> [userAgent |-> "", prefetchRoutes |-> forged],
             runtime |-> "nodejs"] : forged \in ForgedPrefetchRoutes }

InitVisitor ==
    /\ InitService
    /\ InitApiIdle
    /\ InitVitalsIdle
    /\ InitMiddleware
    /\ InitRuleIdle
    /\ InitClientIdle
    /\ \E visit \in Visits :
          /\ cookieJar = visit.cookie
          /\ requestHeaders = visit.headers
          /\ runtime = visit.runtime

NextVisitor ==
    \/ \E path \in RequestPaths : MwReceive(path)
    \/ MwResume
    \/ \E o \in VisitorInferenceOutcomes : MwInferFinish(o)
    \/ RunImmediate
    \/ \E o \in {"fulfilled", "rejected"} : ProbeSettle(o)
    \/ \E ok \in BOOLEAN : TfImportSettle(ok)
    \/ LoaderAfterTf
    \/ \E ok \in BOOLEAN : ModelLoadSettle(ok)
    \/ \E o \in {"rejected", "notOk", "ok"} : VocabFetchSettle(o)
    \/ \E o \in VocabJsonOutcomes : VocabJsonSettle(o)

SpecMiddleware == InitVisitor /\ [][NextVisitor]_vars

(***************************************************************************)
(* The probes of a prewarm reach the same application: the middleware      *)
(* handles them like any other request that its matcher lets through.      *)
(***************************************************************************)

\* variant: a probe that carries the visitor's cookie along
ProbeRequestCookieOfVisitor == cookieJar

\* the cookies of a probe: fetch(url, { method: 'HEAD', headers: {
\* 'User-Agent': ... } }) runs on the server and sends no cookie
ProbeRequestCookie == Undefined

\* the User-Agent of a probe, in lower case
ProbeUserAgent == "cdn-prewarm-agent/1.0"

\* config.matcher '/((?!api|_next/static|_next/image|favicon.ico).*)': the
\* middleware runs unless the pathname goes on with one of the four words
MatcherMatches(pathname) ==
    /\ StartsWith(pathname, "/")
    /\ \A word \in { "/api", "/_next/static", "/_next/image", "/favicon.ico" } :
          ~StartsWith(pathname, word)

\* request.nextUrl.pathname of a probe URL built from BaseUrl
ProbePathname(url) == SubSeq(url, Len(BaseUrl) + 1, Len(url))

\* the probe after those already handled reaches the application.  The
\* middleware runs its whole handler on it; were the gate open it would
\* call getPredictedRoutes, which is as far as that branch is followed.
MwProbe ==
    /\ Len(probeResponses) < Len(probesIssued)
    /\ LET pathname    == ProbePathname(probesIssued[Len(probeResponses) + 1])
           pathHistory == PathHistoryOf(ProbeRequestCookie)
           recentPaths == PredictionInput(pathHistory, pathname)
       IN  IF ~MatcherMatches(pathname)
           THEN /\ probeResponses' =
                      Append(probeResponses,
                             [pathname |-> pathname, middleware |-> FALSE])
                /\ UNCHANGED << cookieJar, request, response, requestCount,
                                immediateQueue, probesIssued, probesSettled >>
                /\ UNCHANGED serviceVars
           ELSE IF recentPaths.ok /\ PredictionGate(recentPaths.val)
           THEN /\ CallBody(MwCaller, recentPaths.val)
                /\ probeResponses' =
                      Append(probeResponses,
                             [pathname |-> pathname, middleware |-> TRUE,
                              predicting |-> TRUE])
                /\ UNCHANGED << cookieJar, request, response, requestCount,
                                immediateQueue, probesIssued, probesSettled >>
           ELSE /\ probeResponses' =
                      Append(probeResponses,
                             [pathname |-> pathname,
                              middleware |-> TRUE,
                              prefetchHeader |-> PrefetchHeader(<< >>),
                              pathHistoryCookie |->
                                  PathHistoryCookie(pathHistory, pathname, << >>),
                              deviceType |-> DeviceType(ProbeUserAgent),
                              cacheControl |-> CacheControl(ProbeUserAgent)])
                /\ UNCHANGED << cookieJar, request, response, requestCount,
                                immediateQueue, probesIssued, probesSettled >>
                /\ UNCHANGED serviceVars
    /\ UNCHANGED << ruleVars, envVars, apiVars, vitalsVars, clientVars >>

\* a visitor whose log opens the gate, on Node.js, where probes are issued
InitProbes ==
    /\ InitService
    /\ InitApiIdle
    /\ InitVitalsIdle
    /\ InitMiddleware
    /\ InitRuleIdle
    /\ InitClientIdle
    /\ cookieJar \in { HomeVisitorCookie,
                        JStr(JsonStringify(StrArr(LogOf(9, << "/category/1", "/product/abc" >>)))) }
    /\ requestHeaders = PlainHeaders
    /\ runtime = "nodejs"

NextProbes ==
    \/ \E path \in RequestPaths : MwReceive(path)
    \/ MwResume
    \/ \E o \in VisitorInferenceOutcomes : MwInferFinish(o)
    \/ RunImmediate
    \/ MwProbe
    \/ \E o \in {"fulfilled", "rejected"} : ProbeSettle(o)
    \/ \E ok \in BOOLEAN : TfImportSettle(ok)
    \/ LoaderAfterTf
    \/ \E ok \in BOOLEAN : ModelLoadSettle(ok)
    \/ \E o \in {"rejected", "notOk", "ok"} : VocabFetchSettle(o)
    \/ \E o \in VocabJsonOutcomes : VocabJsonSettle(o)

SpecProbes == InitProbes /\ [][NextProbes]_vars

(***************************************************************************)
(* app/api/prefetch/route.ts: POST /api/prefetch.                          *)
(***************************************************************************)

\* the caller slot the API route uses
ApiCaller == CHOOSE c \in Callers : \A d \in Callers : c >= d

\* request bodies: not JSON, JSON that is no object, objects without paths
\* or with paths that is no array, and arrays of 0, 2, 3 and 7 entries
ApiBodies ==
    { "not json",
      "null",
      "5",
      "{}",
      "{\"paths\":null}",
      "{\"paths\":\"/a/b/c\"}",
      "{\"paths\":{\"length\":3}}",
      "{\"paths\":[]}",
      "{\"paths\":[\"/about\",\"/\"]}",
      "{\"paths\":[\"/about\",\"/profile\",\"/\"]}",
      "{\"paths\":[1,2,3]}",
      "{\"paths\":[\"/a\",\"/b\",\"/c\",\"/d\",\"/\",\"/category/1\",\"/product/7\"]}" }

\* `const { paths } = body`: null and undefined cannot be destructured, a
\* primitive or an array has no such property
DestructurePaths(body) ==
    IF body.t \in {"null", "undefined"} THEN [ok |-> FALSE, val |-> Undefined]
    ELSE IF body.t = "obj" THEN [ok |-> TRUE, val |-> GetProp(body, "paths")]
    ELSE [ok |-> TRUE, val |-> Undefined]

\* `!paths || !Array.isArray(paths) || paths.length < 3`
InvalidPaths(given) ==
    ~Truthy(given) \/ given.t # "arr" \/ Len(given.v) < 3

\* the responses of the route
BadRequest(body) == [sent |-> TRUE, body |-> body, status |-> 400, routes |-> << >>]
ServerError(body) == [sent |-> TRUE, body |-> body, status |-> 500, routes |-> << >>]
Predictions(body, routes) ==
    [sent |-> TRUE, body |-> body, status |-> 200, routes |-> routes]

\* what the route answers once getPredictedRoutes has settled: a rejection
\* lands in the catch
ApiResponseOf(body, result) ==
    IF result.ok THEN Predictions(body, result.routes) ELSE ServerError(body)

\* POST up to `await getPredictedRoutes(paths.slice(-5))`, or to its return
\* when the body does not get that far
ApiReceive(bodyText) ==
    /\ ~apiRequest.active
    /\ pc[ApiCaller] = "idle"
    /\ LET body == JsonParse(bodyText)
           given == IF body.ok THEN DestructurePaths(body.val)
                    ELSE [ok |-> FALSE, val |-> Undefined]
       IN  IF ~given.ok
           THEN /\ apiResponse' = ServerError(bodyText)
                /\ UNCHANGED << apiRequest, serviceVars >>
           ELSE IF InvalidPaths(given.val)
           THEN /\ apiResponse' = BadRequest(bodyText)
                /\ UNCHANGED << apiRequest, serviceVars >>
           ELSE /\ CallBody(ApiCaller, JsSliceLast(given.val, ContextWindow))
                /\ apiRequest' = [active |-> TRUE, body |-> bodyText]
                /\ apiResponse' = NoApiResponse
    /\ UNCHANGED << mwVars, ruleVars, envVars, vitalsVars, clientVars >>

\* the awaited call resumes after the load; when it returns, so does POST
ApiResume ==
    /\ apiRequest.active
    /\ ResumeBody(ApiCaller)
    /\ IF pc'[ApiCaller] = "idle"
       THEN /\ apiResponse' = ApiResponseOf(apiRequest.body, returned'.result)
            /\ apiRequest' = NoApiRequest
       ELSE UNCHANGED apiVars
    /\ UNCHANGED << mwVars, ruleVars, envVars, vitalsVars, clientVars >>

\* inference settles, the call returns, and so does POST
ApiInferFinish(outcome) ==
    /\ apiRequest.active
    /\ InferFinishBody(ApiCaller, outcome)
    /\ apiResponse' = ApiResponseOf(apiRequest.body, returned'.result)
    /\ apiRequest' = NoApiRequest
    /\ UNCHANGED << mwVars, ruleVars, envVars, vitalsVars, clientVars >>

InitApi ==
    /\ InitService
    /\ InitApiIdle
    /\ InitVitalsIdle
    /\ InitMiddleware
    /\ InitRuleIdle
    /\ InitClientIdle
    /\ cookieJar = Undefined
    /\ requestHeaders = PlainHeaders
    /\ runtime = "edge"

NextApi ==
    \/ \E bodyText \in ApiBodies : ApiReceive(bodyText)
    \/ ApiResume
    \/ \E o \in VisitorInferenceOutcomes : ApiInferFinish(o)
    \/ \E ok \in BOOLEAN : TfImportSettle(ok)
    \/ LoaderAfterTf
    \/ \E ok \in BOOLEAN : ModelLoadSettle(ok)
    \/ \E o \in {"rejected", "notOk", "ok"} : VocabFetchSettle(o)
    \/ \E o \in VocabJsonOutcomes : VocabJsonSettle(o)

SpecApi == InitApi /\ [][NextApi]_vars

(***************************************************************************)
(* app/api/web-vitals/route.ts: the sample store, POST and GET.            *)
(* JSON.stringify(metricsStore, null, 2) differs from the text written     *)
(* here by white space only.                                               *)
(***************************************************************************)

\* `const requiredFields = [...]`
RequiredFields == << "name", "value", "id", "delta", "rating", "navigationType" >>

\* `const validNames = [...]`
ValidNames == { "TTFB", "LCP", "FID", "CLS" }

\* Date.now() at the time a sample is built
Now == 9

\* a sample as an earlier run of the server left it in the file
SeedSample ==
    JObj(<< << "name", JStr("FID") >>, << "value", JNum(3) >>,
            << "id", JStr("seed") >>, << "delta", JNum(3) >>,
            << "rating", JStr("g") >>, << "navigationType", JStr("n") >>,
            << "timestamp", JNum(1) >> >>)

\* what metrics-store.json holds when the server starts: nothing, one
\* sample, text that is not JSON, JSON that is not a list
InitialFiles ==
    { Undefined,
      JStr(JsonStringify(JArr(<< SeedSample >>))),
      JStr("[{\"name\""),
      JStr("{}") }

\* request bodies: two samples that pass, one without an id, one with an
\* unknown name, one with a value that is a string, JSON that is no
\* object, and text that is not JSON
VitalsBodies ==
    { "{\"name\":\"LCP\",\"value\":1,\"id\":\"a\",\"delta\":1,\"rating\":\"g\",\"navigationType\":\"n\"}",
      "{\"name\":\"CLS\",\"value\":0,\"id\":\"b\",\"delta\":0,\"rating\":\"g\",\"navigationType\":\"n\",\"timestamp\":5}",
      "{\"name\":\"LCP\",\"value\":1,\"delta\":1,\"rating\":\"g\",\"navigationType\":\"n\"}",
      "{\"name\":\"FCP\",\"value\":1,\"id\":\"c\",\"delta\":1,\"rating\":\"g\",\"navigationType\":\"n\"}",
      "{\"name\":\"LCP\",\"value\":\"1\",\"id\":\"d\",\"delta\":1,\"rating\":\"g\",\"navigationType\":\"n\"}",
      "null",
      "not json" }

\* request.json() on each of the bodies
ParsedBody == [bodyText \in VitalsBodies |-> JsonParse(bodyText)]

\* variant: a save that writes the newest sample alone
SaveMetricsToFileNewestOnly(store) ==
    JStr(JsonStringify(JArr(<< store.v[Len(store.v)] >>)))

\* saveMetricsToFile() when writeFileSync succeeds: the file spells the list
SaveMetricsToFile(store) == JStr(JsonStringify(store))

\* loadMetricsFromFile(): the list becomes what the file spells; without a
\* file it stays, and when the text does not parse it becomes []
LoadMetricsFromFile(store, file) ==
    IF file = Undefined THEN store
    ELSE LET parsed == JsonParse(file.v)
         IN  IF parsed.ok THEN parsed.val ELSE JArr(<< >>)

\* `field in body`: a TypeError when body is not an object; an array has
\* none of the required fields
HasField(body, field) ==
    IF body.t \notin {"obj", "arr"} THEN [ok |-> FALSE, has |-> FALSE]
    ELSE IF body.t = "arr" THEN [ok |-> TRUE, has |-> FALSE]
    ELSE [ok |-> TRUE,
          has |-> \/ \E i \in 1..Len(body.v) : body.v[i][1] = field
                  \/ field \in ObjectPrototypeKeys]

\* the sample built from a body that passed the checks
MetricSampleOf(body) ==
    JObj([i \in 1..Len(RequiredFields) |->
             << RequiredFields[i], GetProp(body, RequiredFields[i]) >>]
         \o << << "timestamp",
                  IF Truthy(GetProp(body, "timestamp"))
                  THEN GetProp(body, "timestamp") ELSE JNum(Now) >> >>)

\* the checks of POST on a parsed body: the status they end in, 200 when
\* the body passes
ValidateSample(body) ==
    IF \E i \in 1..Len(RequiredFields) : ~HasField(body, RequiredFields[i]).ok
    THEN 500
    ELSE IF \E i \in 1..Len(RequiredFields) : ~HasField(body, RequiredFields[i]).has
    THEN 400
    ELSE IF ~(GetProp(body, "name").t = "str" /\ GetProp(body, "name").v \in ValidNames)
    THEN 400
    ELSE IF GetProp(body, "value").t # "num"
    THEN 400
    ELSE 200

\* the lowest slot no request has used
FreeSlot(slot) ==
    /\ posts[slot].pc = "none"
    /\ \A other \in PostSlots : other < slot => posts[other].pc # "none"

\* POST up to `await request.json()`: the list is loaded from the file
PostStart(slot, bodyText) ==
    /\ FreeSlot(slot)
    /\ metricsStore' = LoadMetricsFromFile(metricsStore, metricsFile)
    /\ posts' = [posts EXCEPT ![slot] = [pc |-> "awaitJson", body |-> bodyText]]
    /\ UNCHANGED << metricsFile, writeErrors, lastGet >>
    /\ UNCHANGED << serviceVars, mwVars, ruleVars, envVars, apiVars, clientVars >>

\* POST from the parsed body to its return: the checks, push, and
\* saveMetricsToFile(), whose write succeeds or throws into its own catch
PostResume(slot, writeOk) ==
    /\ posts[slot].pc = "awaitJson"
    /\ LET body   == ParsedBody[posts[slot].body]
           status == IF ~body.ok THEN 500 ELSE ValidateSample(body.val)
           sample == MetricSampleOf(body.val)
       IN  IF status # 200
           THEN /\ posts' = [posts EXCEPT ![slot] =
                               [pc |-> "done", body |-> posts[slot].body,
                                status |-> status]]
                /\ UNCHANGED << metricsStore, metricsFile, writeErrors >>
           ELSE IF metricsStore.t # "arr"
           THEN /\ posts' = [posts EXCEPT ![slot] =
                               [pc |-> "done", body |-> posts[slot].body,
                                status |-> 500]]
                /\ UNCHANGED << metricsStore, metricsFile, writeErrors >>
           ELSE /\ metricsStore' = JArr(Append(metricsStore.v, sample))
                /\ IF writeOk
                   THEN /\ metricsFile' = SaveMetricsToFile(metricsStore')
                        /\ UNCHANGED writeErrors
                   ELSE /\ writeErrors' = Inc(writeErrors)
                        /\ UNCHANGED metricsFile
                /\ posts' = [posts EXCEPT ![slot] =
                               [pc |-> "done", body |-> posts[slot].body,
                                status |-> 200, sample |-> sample,
                                sampleCount |-> Len(metricsStore'.v)]]
    /\ UNCHANGED lastGet
    /\ UNCHANGED << serviceVars, mwVars, ruleVars, envVars, apiVars, clientVars >>

\* GET: load, then aggregateMetrics(metricsStore), which filters the list
Get ==
    /\ metricsStore' = LoadMetricsFromFile(metricsStore, metricsFile)
    /\ lastGet' = IF metricsStore'.t = "arr"
                  THEN [sent |-> TRUE, status |-> 200,
                        sampleCount |-> Len(metricsStore'.v)]
                  ELSE [sent |-> TRUE, status |-> 500]
    /\ lastGet' # lastGet
    /\ UNCHANGED << metricsFile, writeErrors, posts >>
    /\ UNCHANGED << serviceVars, mwVars, ruleVars, envVars, apiVars, clientVars >>

\* the module is loaded: `loadMetricsFromFile()` runs once on the list []
InitVitals ==
    /\ InitService
    /\ InitApiIdle
    /\ InitMiddleware
    /\ InitRuleIdle
    /\ InitClientIdle
    /\ cookieJar = Undefined
    /\ requestHeaders = PlainHeaders
    /\ runtime = "nodejs"
    /\ metricsFile \in InitialFiles
    /\ metricsStore = LoadMetricsFromFile(JArr(<< >>), metricsFile)
    /\ writeErrors = 0
    /\ posts = [slot \in PostSlots |-> NoPost]
    /\ lastGet = NoGet

NextVitals ==
    \/ \E slot \in PostSlots, bodyText \in VitalsBodies : PostStart(slot, bodyText)
    \/ \E slot \in PostSlots, writeOk \in BOOLEAN : PostResume(slot, writeOk)
    \/ Get

SpecWebVitals == InitVitals /\ [][NextVitals]_vars

(***************************************************************************)
(* The vocabulary, the encoder and the top-k selection on their own: one   *)
(* caller triggers the load, which succeeds with one of several            *)
(* vocabularies; pathsToSequence and the selection of predictWithModel     *)
(* then run on inputs of their own.                                        *)
(***************************************************************************)

\* vocabulary files with unique ids: the one of VocabFiles, one with
\* scattered ids whose reserved tokens are not 0 and 1, and an empty one
Vocabularies ==
    { JObj(<< << "<PAD>", JNum(0) >>, << "<UNK>", JNum(1) >>,
              << "/", JNum(2) >>, << "/category/1", JNum(3) >>,
              << "/profile", JNum(4) >> >>),
      JObj(<< << "/", JNum(7) >>, << "<UNK>", JNum(9) >>,
              << "/about", JNum(3) >>, << "<PAD>", JNum(5) >> >>),
      JObj(<< >>) }

\* route lists handed to pathsToSequence: empty, shorter than, as long as
\* and longer than the window, with routes the vocabularies lack, and with
\* routes named like members of Object.prototype
EncoderInputs ==
    { StrArr(<< >>),
      StrArr(<< "/" >>),
      StrArr(<< "/nowhere" >>),
      StrArr(<< "/profile", "/nowhere", "/" >>),
      StrArr(<< "/", "/about", "/category/1", "/profile", "/" >>),
      StrArr(<< "/a", "/b", "/", "/about", "/nowhere", "/profile", "/category/1" >>),
      StrArr(<< "toString" >>),
      StrArr(<< "/", "constructor", "/profile" >>) }

\* probabilities, in thirds, a class can get
Weights == 0..2

\* rows model.predict can yield: a value for every class id
Distributions == [1..NumClasses -> Weights]

\* pathsToSequence runs on the input with the loaded vocabulary
ApplyPathsToSequence ==
    /\ Truthy(vocab)
    /\ ruleOutput.fn # "pathsToSequence"
    /\ ruleOutput' = [fn |-> "pathsToSequence",
                      sequence |-> PathsToSequence(ruleInput, vocab)]
    /\ UNCHANGED << ruleInput, serviceVars, mwVars, envVars, apiVars, vitalsVars, clientVars >>

\* predictWithModel from tf.topk to its return, on a row of predictions
ApplyTopK(predictions) ==
    /\ ~ModelUnusable
    /\ ruleOutput.fn \in { "none", "pathsToSequence" }
    /\ LET topIndices == TopK(predictions, 3, {})
       IN  ruleOutput' = [fn |-> "topk",
                          predictions |-> predictions,
                          topIndices |-> topIndices,
                          routes |-> RoutesFromIndices(topIndices, reverseVocab, 1)]
    /\ UNCHANGED << ruleInput, serviceVars, mwVars, envVars, apiVars, vitalsVars, clientVars >>

\* rows in which one class stands out and its neighbour comes second
PeakedRows ==
    { [i \in 1..NumClasses |->
          IF i = hot THEN 2 ELSE IF i = (hot % NumClasses) + 1 THEN 1 ELSE 0] :
        hot \in 1..NumClasses }

\* where one run of predictWithModel can throw: nowhere, or in the call
\* that creates the input tensor, runs the model, selects the top k, or
\* reads the indices or the values back
ThrowPoints == { "none", "tensor2d", "predict", "topk", "indices", "values" }

\* tf.tensor2d([sequence], [1, 5]) throws on a value that is not a number
AllNumbers(sequence) == \A i \in 1..Len(sequence) : sequence[i].t = "num"

\* the tensors predictWithModel has created when it gets as far as the
\* given point and throws there; "none" is the run to the end
TensorsCreated(throwAt) ==
    IF throwAt = "tensor2d" THEN {}
    ELSE IF throwAt = "predict" THEN { "inputTensor" }
    ELSE IF throwAt = "topk" THEN { "inputTensor", "predictions" }
    ELSE { "inputTensor", "predictions", "topK.indices", "topK.values" }

\* the tensors it has disposed: the four dispose() calls come after the
\* last await of the try block, and the catch block disposes nothing
TensorsDisposed(throwAt) ==
    IF throwAt = "none"
    THEN { "inputTensor", "predictions", "topK.indices", "topK.values" }
    ELSE {}

\* predictWithModel(paths) as a whole, run on its own on a row of
\* predictions, with the tensors it created and disposed
ApplyPredictWithModel(predictions, throwAt) ==
    /\ ~ModelUnusable
    /\ ruleOutput.fn \in { "none", "pathsToSequence" }
    /\ LET sequence == PathsToSequence(ruleInput, vocab)
           thrownAt == IF AllNumbers(sequence) THEN throwAt ELSE "tensor2d"
           topIndices == TopK(predictions, 3, {})
       IN  /\ Len(sequence) = 5
           /\ ruleOutput' =
                 [fn |-> "predictWithModel",
                  thrownAt |-> thrownAt,
                  created |-> TensorsCreated(thrownAt),
                  disposed |-> TensorsDisposed(thrownAt),
                  routes |-> IF thrownAt = "none"
                             THEN RoutesFromIndices(topIndices, reverseVocab, 1)
                             ELSE << >>]
    /\ UNCHANGED << ruleInput, serviceVars, mwVars, envVars, apiVars, vitalsVars, clientVars >>

InitVocabulary ==
    /\ InitService
    /\ InitApiIdle
    /\ InitVitalsIdle
    /\ InitMiddleware
    /\ InitClientIdle
    /\ cookieJar = Undefined
    /\ requestHeaders = PlainHeaders
    /\ runtime = "nodejs"
    /\ ruleInput \in EncoderInputs
    /\ ruleOutput = NotRun

NextVocabulary ==
    \/ Call(MwCaller, StrArr(<< "/" >>))
    \/ TfImportSettle(TRUE)
    \/ LoaderAfterTf
    \/ ModelLoadSettle(TRUE)
    \/ VocabFetchSettle("ok")
    \/ \E file \in Vocabularies :
          VocabJsonSettle([threw |-> FALSE, content |-> file])
    \/ ApplyPathsToSequence
    \/ \E predictions \in Distributions : ApplyTopK(predictions)
    \/ \E predictions \in PeakedRows, throwAt \in ThrowPoints :
          ApplyPredictWithModel(predictions, throwAt)

SpecVocabulary == InitVocabulary /\ [][NextVocabulary]_vars

(***************************************************************************)
(* The service under concurrent callers and a fair event loop.  Whether a  *)
(* caller resumes does not depend on what its argument holds, so the       *)
(* callers pass a history that ends at the home page, and inference has   *)
(* the outcomes the visitor's requests meet.                               *)
(***************************************************************************)

LivePathInputs == { StrArr(<< "/profile", "/" >>) }

NextLive ==
    \/ \E c \in Callers, p \in LivePathInputs : Call(c, p)
    \/ \E c \in Callers : Resume(c)
    \/ \E c \in Callers, o \in VisitorInferenceOutcomes : InferFinish(c, o)
    \/ \E ok \in BOOLEAN : TfImportSettle(ok)
    \/ LoaderAfterTf
    \/ \E ok \in BOOLEAN : ModelLoadSettle(ok)
    \/ \E o \in {"rejected", "notOk", "ok"} : VocabFetchSettle(o)
    \/ \E o \in VocabJsonOutcomes : VocabJsonSettle(o)

\* The event loop runs every continuation that is ready: a caller whose
\* awaited promise has settled resumes, and a started inference settles.
Fairness ==
    /\ \A c \in Callers : WF_vars(Resume(c))
    /\ \A c \in Callers :
          WF_vars(\E o \in VisitorInferenceOutcomes : InferFinish(c, o))

SpecLive == Init /\ [][NextLive]_vars /\ Fairness

(***************************************************************************)
(* The rule-based code on its own, over many last paths.                   *)
(***************************************************************************)

\* last paths: every row of the policy table, paths that nearly match a row,
\* and product paths whose id segment is not a plain number
LastPaths ==
    { "/", "/profile", "/about", "", "/profile/settings", "/products/3",
      "/category/1", "/category/2", "/category/12/items", "/category/",
      "/category", "/categoryx",
      "/product/7", "/product/1", "/product/0", "/product/199", "/product/9",
      "/product/7/reviews", "/product/abc", "/product/", "/product",
      "/product/-1", "/product/0x1F", "/product/7abc" }

\* what precedes the last path in a history
HistoryPrefixes ==
    { << >>, << "/" >>, << "/profile", "/category/3" >> }

RuleInputs ==
    { StrArr(prefix \o << last >>) : prefix \in HistoryPrefixes, last \in LastPaths }

\* the fallback of getPredictedRoutes runs on the input
ApplyFallbackPredictions ==
    /\ ruleOutput.fn # "fallback"
    /\ ruleOutput' = [fn |-> "fallback", result |-> FallbackPredictions(ruleInput)]
    /\ UNCHANGED << ruleInput, serviceVars, mwVars, envVars, apiVars, vitalsVars, clientVars >>

\* the rule-based-only getPredictedRoutes runs on the input
ApplyRuleBasedPredictor ==
    /\ ruleOutput.fn # "ruleBasedOnly"
    /\ ruleOutput' = [fn |-> "ruleBasedOnly", result |-> RuleBasedPredictor(ruleInput)]
    /\ UNCHANGED << ruleInput, serviceVars, mwVars, envVars, apiVars, vitalsVars, clientVars >>

InitRuleBased ==
    /\ InitService
    /\ InitApiIdle
    /\ InitVitalsIdle
    /\ InitMiddleware
    /\ InitClientIdle
    /\ cookieJar = Undefined
    /\ requestHeaders = PlainHeaders
    /\ runtime = "nodejs"
    /\ ruleInput \in RuleInputs
    /\ ruleOutput = NotRun

NextRuleBased ==
    \/ ApplyFallbackPredictions
    \/ ApplyRuleBasedPredictor

SpecRuleBased == InitRuleBased /\ [][NextRuleBased]_vars

(***************************************************************************)
(* The browser side: the rendered document, PrefetchClient and             *)
(* prefetchLikelyRoutesClient.  Time is in milliseconds.                   *)
(***************************************************************************)

\* the clock advances in steps of TickMs up to MaxClock
TickMs == 50
MaxClock == 250

\* `setTimeout(..., 100)` of the router-ready effect
TimerDelay == 100

\* when router.prefetch becomes a function: at once, before the re-check,
\* after it (150 ms), or never (-1).  useRouter() hands back the same router
\* object on every render, so the change itself causes no re-render.
RouterReadyTimes == { 0, 50, 150, -1 }

\* when document.readyState becomes 'complete'
LoadTimes == { 0, 100 }

\* x-prefetch-routes header values the injector can be handed: absent,
\* empty, malformed, non-array, an empty array, and route lists
BridgeHeaders ==
    { Undefined,
      JStr(""),
      JStr("not json"),
      JStr("{\"a\":1}"),
      JStr("\"/a\""),
      JStr("[]"),
      JStr("[\"/category/1\",\"/category/2\",\"/profile\"]"),
      JStr("[\"/a\",\"b\",\"/c\"]") }

\* text of script#__NEXT_PREFETCH_ROUTES__ that did not come out of the
\* injector unchanged: an empty element, cut-off JSON, a non-array, and a
\* list with entries that are not routes
AlteredIslands ==
    { JStr(""),
      JStr("[\"/a\",\"b\""),
      JStr("{\"routes\":[\"/a\"]}"),
      JStr("[1,\"/a\",\"\",\"b\"]") }

\* routes for which router.prefetch throws
ThrowingRoutes == { {}, {"/a"}, {"/a", "/b", "/c", "/profile"} }

\* `router && typeof router.prefetch === 'function'`
RouterUsable ==
    /\ browser.routerReadyAt >= 0
    /\ browser.clock >= browser.routerReadyAt

\* document.readyState
ReadyState == IF browser.clock >= browser.loadAt THEN "complete" ELSE "loading"

\* the script-tag effect of PrefetchClient: the routes it hands to setRoutes,
\* or none when it does not call setRoutes
ReadIsland(island) ==
    IF island = Undefined THEN << >>
    ELSE LET scriptRoutes == JsonParse(IF island.v = "" THEN "[]" ELSE island.v)
         IN  IF scriptRoutes.ok /\ scriptRoutes.val.t = "arr"
                /\ Len(scriptRoutes.val.v) > 0
             THEN scriptRoutes.val.v
             ELSE << >>

\* variant: a re-check that fires at once
RecheckDueNow(now) == now

\* when the timer of the router-ready effect is due
RecheckDue(now) == now + TimerDelay

\* variant: a timer callback that keeps polling until the router is usable
RecheckUntilReady(usable) == ~usable

\* whether the timer callback arms another timer: it sets the flag when the
\* router is usable and does nothing otherwise
RecheckAgain(usable) == FALSE

\* `route.startsWith('/') ? route : `/${route}``
NormalizedRoute(route) == IF StartsWith(route, "/") THEN route ELSE "/" \o route

\* variant: a forEach whose first throwing prefetch ends the loop
RECURSIVE PrefetchLikelyRoutesClientNoIsolation(_, _, _)
PrefetchLikelyRoutesClientNoIsolation(routes, throwing, i) ==
    IF i > Len(routes) THEN << >>
    ELSE IF Truthy(routes[i]) /\ routes[i].t = "str"
    THEN IF NormalizedRoute(routes[i].v) \in throwing
         THEN << NormalizedRoute(routes[i].v) >>
         ELSE << NormalizedRoute(routes[i].v) >>
              \o PrefetchLikelyRoutesClientNoIsolation(routes, throwing, i + 1)
    ELSE PrefetchLikelyRoutesClientNoIsolation(routes, throwing, i + 1)

\* prefetchLikelyRoutesClient(router, routes) with a usable router, from
\* entry i on: the router.prefetch calls it makes, in order.  A call that
\* throws is caught inside the loop body and the loop goes on.
RECURSIVE PrefetchLikelyRoutesClient(_, _, _)
PrefetchLikelyRoutesClient(routes, throwing, i) ==
    IF i > Len(routes) THEN << >>
    ELSE IF Truthy(routes[i]) /\ routes[i].t = "str"
    THEN << NormalizedRoute(routes[i].v) >>
         \o PrefetchLikelyRoutesClient(routes, throwing, i + 1)
    ELSE PrefetchLikelyRoutesClient(routes, throwing, i + 1)

NonClientUnchanged == UNCHANGED << serviceVars, mwVars, ruleVars, envVars, apiVars, vitalsVars >>

\* the document arrives: its data island is what the injector rendered for
\* some header value, or an altered text
OpenPage(header, altered, loadAt, routerReadyAt, throwing) ==
    /\ ~browser.open
    /\ browser' =
         [open |-> TRUE,
          header |-> header,
          altered |-> altered # Undefined,
          island |-> IF altered # Undefined THEN altered
                     ELSE PrefetchRoutesInjector(header),
          loadAt |-> loadAt,
          routerReadyAt |-> routerReadyAt,
          throwing |-> throwing,
          clock |-> 0]
    /\ UNCHANGED client
    /\ NonClientUnchanged

\* PrefetchClient mounts (propsRoutes is [], the layout passes no props) and
\* its three effects run with the state of the first render
Mount ==
    /\ browser.open
    /\ ~client.mounted
    /\ LET scriptRoutes == ReadIsland(browser.island)
       IN  client' =
             [mounted |-> TRUE,
              mountedAt |-> browser.clock,
              isRouterReady |-> RouterUsable,
              routes |-> scriptRoutes,
              timer |-> IF RouterUsable THEN "none" ELSE "armed",
              timerDue |-> RecheckDue(browser.clock),
              timersScheduled |-> IF RouterUsable THEN 0 ELSE 1,
              pendingRender |-> RouterUsable \/ Len(scriptRoutes) > 0,
              idleCallbacks |-> << >>,
              prefetchCalls |-> << >>]
    /\ UNCHANGED browser
    /\ NonClientUnchanged

\* variant: a prefetch effect that does not look at document.readyState
SchedulesPrefetchWhileLoading ==
    /\ client.isRouterReady
    /\ Len(client.routes) > 0

\* the prefetch effect hands prefetchRoutes to requestIdleCallback: the
\* document is complete, `isRouterReady && routes.length > 0 && router`
SchedulesPrefetch ==
    /\ ReadyState = "complete"
    /\ client.isRouterReady
    /\ Len(client.routes) > 0

\* the component renders again after a state change and the prefetch effect
\* runs with the new state
Rerender ==
    /\ client.mounted
    /\ client.pendingRender
    /\ client' =
         [client EXCEPT
            !.pendingRender = FALSE,
            !.idleCallbacks =
                IF SchedulesPrefetch
                THEN Append(@, client.routes)
                ELSE @]
    /\ UNCHANGED browser
    /\ NonClientUnchanged

\* the 100 ms timer of the router-ready effect fires
TimerFire ==
    /\ client.mounted
    /\ client.timer = "armed"
    /\ browser.clock >= client.timerDue
    /\ client' =
         [client EXCEPT
            !.timer = IF RecheckAgain(RouterUsable) THEN "armed" ELSE "done",
            !.timerDue = IF RecheckAgain(RouterUsable)
                         THEN RecheckDue(browser.clock) ELSE @,
            !.timersScheduled = IF RecheckAgain(RouterUsable) THEN @ + 1 ELSE @,
            !.isRouterReady = @ \/ RouterUsable,
            !.pendingRender = @ \/ (RouterUsable /\ ~client.isRouterReady)]
    /\ UNCHANGED browser
    /\ NonClientUnchanged

\* the callback handed to requestIdleCallback / setTimeout(..., 0) runs
RunIdleCallback ==
    /\ client.mounted
    /\ client.idleCallbacks # << >>
    /\ client' =
         [client EXCEPT
            !.idleCallbacks = Tail(@),
            !.prefetchCalls =
                IF RouterUsable
                THEN @ \o PrefetchLikelyRoutesClient(
                             Head(client.idleCallbacks), browser.throwing, 1)
                ELSE @]
    /\ UNCHANGED browser
    /\ NonClientUnchanged

\* time passes; a due timer fires before the clock moves on
Tick ==
    /\ browser.open
    /\ browser.clock + TickMs <= MaxClock
    /\ ~(client.mounted /\ client.timer = "armed"
           /\ browser.clock >= client.timerDue)
    /\ browser' = [browser EXCEPT !.clock = @ + TickMs]
    /\ UNCHANGED client
    /\ NonClientUnchanged

InitClient ==
    /\ InitService
    /\ InitApiIdle
    /\ InitVitalsIdle
    /\ InitMiddleware
    /\ InitRuleIdle
    /\ InitClientIdle
    /\ cookieJar = Undefined
    /\ requestHeaders = PlainHeaders
    /\ runtime = "nodejs"

NextClient ==
    \/ \E header \in BridgeHeaders, altered \in AlteredIslands \cup {Undefined},
          loadAt \in LoadTimes, routerReadyAt \in RouterReadyTimes,
          throwing \in ThrowingRoutes :
            OpenPage(header, altered, loadAt, routerReadyAt, throwing)
    \/ Mount
    \/ Rerender
    \/ TimerFire
    \/ RunIdleCallback
    \/ Tick

SpecClient == InitClient /\ [][NextClient]_vars

(***************************************************************************)
(* Properties of the service.                                              *)
(***************************************************************************)
NoDuplicates(seq) == \A i, j \in 1..Len(seq) : i # j => seq[i] # seq[j]

\* a call with a non-empty argument has completed
CompletedNonEmpty == returned.calls = 1 /\ ~NoPaths(returned.paths)

\* C1: however many callers make their first call concurrently, the load body
\* is started exactly once: at most one runtime import, one model load and one
\* vocabulary fetch are ever started, and every caller that waits waits on the
\* one in-flight promise.
C1_AtMostOneLoader ==
    /\ loadBodyRuns <= 1 /\ tfImports <= 1 /\ modelLoads <= 1 /\ vocabFetches <= 1
    /\ (\E c \in Callers : pc[c] # "idle") => loadBodyRuns = 1
    /\ \A c \in Callers : pc[c] = "awaitLoad" => modelLoadPromise # "null"

\* every caller is suspended on the same load, which has got as far as the
\* vocabulary fetch
C1_Witness ==
    /\ \A c \in Callers : pc[c] = "awaitLoad"
    /\ modelLoadPromise = "pending"
    /\ loaderPc = "fetchingVocab"

\* C2: the load state moves UNINITIALIZED -> LOADING -> READY or UNAVAILABLE
\* only; READY and UNAVAILABLE are absorbing, and once the load has settled
\* no step starts a load or writes model, vocab or reverseVocab.
C2_LoadStateAbsorbing ==
    [][ /\ LoadState = "UNINITIALIZED" => LoadState' \in {"UNINITIALIZED", "LOADING"}
        /\ LoadState = "LOADING" => LoadState' \in {"LOADING", "READY", "UNAVAILABLE"}
        /\ LoadState \in {"READY", "UNAVAILABLE"} =>
             /\ LoadState' = LoadState
             /\ UNCHANGED << tf, model, vocab, reverseVocab, loadBodyRuns,
                             tfImports, modelLoads, vocabFetches >> ]_vars

\* after a failed load a call has completed, and every caller has called again
C2_Witness ==
    /\ CompletedNonEmpty
    /\ returned.loadState = "UNAVAILABLE"
    /\ \A c \in Callers : pc[c] = "awaitLoad"

\* C3: when the model is UNAVAILABLE, every call with a non-empty history
\* returns exactly what the rule-based predictor returns for that history.
C3_UnavailableIsRuleBased ==
    (CompletedNonEmpty /\ returned.loadState = "UNAVAILABLE") =>
        returned.result = RuleBasedPredictor(returned.paths)

\* a call answered by the fallback although the model file itself had loaded
C3_Witness ==
    /\ CompletedNonEmpty
    /\ returned.loadState = "UNAVAILABLE"
    /\ Truthy(model)
    /\ returned.result = Ok(<< "/category/1", "/category/2", "/profile" >>)

\* C4: a call with an empty path list returns [] at once and changes neither
\* the load state nor the model/vocabulary variables nor any caller.
C4_EmptyPathsNoLoad ==
    [][ (returned' # returned /\ returned'.paths = StrArr(<< >>)) =>
            /\ returned'.result = Ok(<< >>)
            /\ returned'.loadState = LoadState
            /\ UNCHANGED handleVars
            /\ UNCHANGED << pc, paths >> ]_vars

\* an empty call has returned and no load was ever attempted
C4_Witness ==
    /\ returned.calls = 1
    /\ returned.paths = StrArr(<< >>)
    /\ returned.result = Ok(<< >>)
    /\ LoadState = "UNINITIALIZED"

\* C7: every returned list has at most 3 entries, no duplicate route and
\* neither reserved token.
C7_WellFormedPrediction ==
    (returned.calls = 1 /\ returned.result.ok) =>
        /\ Len(returned.result.routes) <= 3
        /\ NoDuplicates(returned.result.routes)
        /\ \A i \in 1..Len(returned.result.routes) :
              returned.result.routes[i] \notin {"<PAD>", "<UNK>"}

\* a model-backed answer from which two of the three top ids were filtered
C7_Witness ==
    /\ CompletedNonEmpty
    /\ returned.usedModel
    /\ ~returned.inferenceThrew
    /\ Len(returned.modelPredictions) = 1
    /\ returned.result = Ok(returned.modelPredictions)

\* C8: when the model-backed predictor returns k >= 1 routes, the call
\* returns exactly those routes in that order, never merged or topped up.
C8_ModelResultAuthoritative ==
    (CompletedNonEmpty /\ returned.usedModel
        /\ Len(returned.modelPredictions) >= 1) =>
        /\ returned.result = Ok(returned.modelPredictions)
        /\ Len(returned.modelPredictions) <= 3

\* a model-backed answer of two routes, returned as it is
C8_Witness ==
    /\ CompletedNonEmpty
    /\ returned.loadState = "READY"
    /\ Len(returned.modelPredictions) = 2
    /\ returned.result.routes = returned.modelPredictions

\* C9: when the handle is READY and inference throws or leaves no usable
\* route, the call does not fail and returns the rule-based predictor's
\* output for the same paths.
C9_InferenceFailureFallsBack ==
    (CompletedNonEmpty /\ returned.loadState = "READY"
        /\ (returned.inferenceThrew \/ Len(returned.modelPredictions) = 0)) =>
        /\ returned.result.ok
        /\ returned.result = RuleBasedPredictor(returned.paths)

\* inference threw on a READY handle and the caller got the rule-based list
C9_Witness ==
    /\ CompletedNonEmpty
    /\ returned.loadState = "READY"
    /\ returned.inferenceThrew
    /\ returned.result = Ok(<< "/category/1", "/product/8", "/" >>)

\* every top id was filtered out on a READY handle
C9_ZeroUsableReached ==
    /\ CompletedNonEmpty
    /\ returned.loadState = "READY"
    /\ returned.usedModel /\ ~returned.inferenceThrew
    /\ Len(returned.modelPredictions) = 0

(***************************************************************************)
(* Properties of the rule-based code.                                      *)
(***************************************************************************)

DefaultRoutes == << "/", "/category/1", "/profile" >>

\* the segment that follows the first segment of a path, "" when there is none
IdSegment(path) ==
    LET parts == Split(path, "/")
    IN  IF Len(parts) >= 3 THEN parts[3] ELSE ""

IsDecimal(str) ==
    /\ str # ""
    /\ \A i \in 1..Len(str) : \E d \in 1..Len(Digits) : CharAt(str, i) = Digits[d]

\* a route /product/<number>
IsProductRoute(route) ==
    /\ StartsWith(route, "/product/")
    /\ IsDecimal(SubSeq(route, Len("/product/") + 1, Len(route)))

\* the row of the policy table for product paths: the id is incremented; a
\* path with no decimal id after /product/ may count as "anything else" or
\* yield any product route with a numeric id
ProductRow(last, routes) ==
    IF IsDecimal(IdSegment(last))
    THEN routes = << "/category/1",
                     "/product/" \o NatToString(ParseInt(IdSegment(last)).n + 1),
                     "/" >>
    ELSE \/ routes = DefaultRoutes
         \/ /\ Len(routes) = 3
            /\ routes[1] = "/category/1"
            /\ IsProductRoute(routes[2])
            /\ routes[3] = "/"

\* the policy table of the Rule-Based Predictor, first match wins
PolicyTable(last, routes) ==
    IF last = "/"
    THEN routes = << "/category/1", "/category/2", "/profile" >>
    ELSE IF StartsWith(last, "/category/")
    THEN routes = << "/category/" \o IdSegment(last), "/product/1", "/product/2" >>
    ELSE IF StartsWith(last, "/product/")
    THEN ProductRow(last, routes)
    ELSE IF last = "/profile"
    THEN routes = << "/", "/category/1", "/category/2" >>
    ELSE routes = DefaultRoutes

\* C5: for every last path, the rule-based fallback of getPredictedRoutes
\* returns the row of the policy table that the last path matches first:
\* "/" gives the two categories and the profile, /category/{id} gives that
\* category and products 1 and 2, /product/{id} gives category 1, product
\* id+1 and "/", /profile gives "/" and the two categories, anything else the
\* default list.
C5_PolicyTableForEveryLastPath ==
    ruleOutput.fn = "fallback" =>
        /\ ruleOutput.result.ok
        /\ PolicyTable(LastElement(ruleInput).v, ruleOutput.result.routes)

(***************************************************************************)
(* Properties of the middleware.                                           *)
(***************************************************************************)

RootRoutes == << "/category/1", "/category/2", "/profile" >>

C10_VisitLogCapped ==
    response.sent =>
        LET token == JsonParse(response.pathHistoryCookie)
            prior == JsonParse(response.priorHistory)
            combined == Append(prior.val.v, JStr(response.currentPath))
            dropped == Len(combined) - HistoryCap
        IN  /\ cookieJar = JStr(response.pathHistoryCookie)
            /\ token.ok
            /\ token.val.t = "arr"
            /\ Len(token.val.v) \in 1..HistoryCap
            /\ token.val.v[Len(token.val.v)] = JStr(response.currentPath)
            /\ (prior.ok /\ prior.val.t = "arr" /\ dropped > 0) =>
                  /\ Len(token.val.v) = HistoryCap
                  /\ \A i \in 1..HistoryCap : token.val.v[i] = combined[dropped + i]

\* the second request of a visitor whose log was already full
C10_Witness ==
    /\ response.sent
    /\ requestCount > Len(<< "/" >>)
    /\ LET prior == JsonParse(response.priorHistory)
       IN  /\ prior.ok
           /\ prior.val.t = "arr"
           /\ Len(prior.val.v) = HistoryCap
           /\ prior.val.v[HistoryCap] # JStr(response.currentPath)
    /\ Len(JsonParse(response.pathHistoryCookie).val.v) = HistoryCap

\* a parsed path-history cookie that is a JSON array of route strings
IsRouteLog(text) ==
    LET history == JsonParse(text)
    IN  /\ history.ok
        /\ history.val.t = "arr"
        /\ \A i \in 1..Len(history.val.v) : history.val.v[i].t = "str"

\* the request of the latest response passed the prediction gate
GateWasOpen ==
    LET recentPaths == RecentPaths(response.priorHistory)
    IN  recentPaths.ok /\ PredictionGate(recentPaths.val)

\* C11: a path-history cookie that is not a JSON array of route strings is
\* answered like an empty log: no predicted routes, no X-Prefetch-Routes
\* header, and the next cookie holds the current route alone; the handler
\* still answers.
C11_MalformedTokenAsEmptyLog ==
    (response.sent /\ ~IsRouteLog(response.priorHistory)) =>
        /\ response.predictedRoutes = << >>
        /\ response.prefetchHeader = Undefined
        /\ response.pathHistoryCookie =
              JsonStringify(StrArr(<< response.currentPath >>))

\* C12: every answered request rewrites the path-history cookie to a value
\* fixed by the prior cookie and the current route, whatever the prediction
\* did and whatever the load state; device and cache headers follow the
\* user agent alone; a request whose prediction is empty differs only in
\* having no X-Prefetch-Routes header and no prewarm task.
C12_TokenRewrittenWhateverPrediction ==
    [][ requestCount' # requestCount =>
          /\ response'.pathHistoryCookie =
                UpdatedHistory(response'.priorHistory, response'.currentPath)
          /\ cookieJar' = JStr(response'.pathHistoryCookie)
          /\ response'.deviceType = DeviceType(requestHeaders.userAgent)
          /\ response'.cacheControl = CacheControl(requestHeaders.userAgent)
          /\ response'.predictedRoutes = << >> =>
                /\ response'.prefetchHeader = Undefined
                /\ UNCHANGED << immediateQueue, probesIssued, probesSettled >>
       ]_vars

\* a request whose prediction threw was answered with a rewritten cookie
C12_Witness ==
    /\ response.sent
    /\ GateWasOpen
    /\ returned.calls > 0
    /\ ~returned.result.ok
    /\ response.predictedRoutes = << >>
    /\ response.pathHistoryCookie # response.priorHistory
    /\ cookieJar = JStr(response.pathHistoryCookie)

\* C13: the step that answers a request with predictions hands the prewarm
\* task to setImmediate and returns with no probe of it issued or awaited;
\* no step of the request path needs a probe to settle, and a probe that
\* settles touches nothing of the request path.
C13_RequestNeverWaitsOnProbe ==
    [][ /\ ( /\ requestCount' # requestCount
             /\ response'.prefetchHeader # Undefined
             /\ SetImmediateDefined )
            => /\ immediateQueue' =
                    Append(immediateQueue,
                           [routes |-> response'.predictedRoutes,
                            baseUrl |-> BaseUrl])
               /\ UNCHANGED << probesIssued, probesSettled >>
               /\ ~request'.active
        /\ probesSettled' > probesSettled =>
               UNCHANGED << request, response, requestCount, cookieJar >>
       ]_vars

\* a later request was answered while every probe of the latest batch hangs
C13_Witness ==
    /\ requestCount > Len(<< "/" >>)
    /\ response.sent
    /\ response.prefetchHeader # Undefined
    /\ probesIssued # << >>
    /\ probesSettled = 0
    /\ immediateQueue # << >>

\* C14: every prewarm call with a non-empty route list gets its probes
\* issued: the call schedules one task for the list, the task issues exactly
\* one probe per entry, addressed to baseUrl + route, and is then gone; a
\* probe that settles, either way, re-issues nothing and reaches no request.
C14_OneProbePerRoute ==
    [][ /\ (requestCount' # requestCount /\ Len(response'.predictedRoutes) > 0)
            => immediateQueue' =
                  Append(immediateQueue,
                         [routes |-> response'.predictedRoutes,
                          baseUrl |-> BaseUrl])
        /\ Len(immediateQueue') < Len(immediateQueue)
            => /\ immediateQueue' = Tail(immediateQueue)
               /\ Len(probesIssued') = Len(Head(immediateQueue).routes)
               /\ \A i \in 1..Len(probesIssued') :
                     probesIssued'[i] =
                        Head(immediateQueue).baseUrl \o Head(immediateQueue).routes[i]
        /\ probesSettled' > probesSettled
            => UNCHANGED << probesIssued, immediateQueue, request, response,
                            requestCount, cookieJar >>
       ]_vars

C16_IslandMatchesHeader ==
    (response.sent /\ response.prefetchHeader # Undefined) =>
        /\ response.island # Undefined
        /\ JsonParse(response.island.v) =
              [ok |-> TRUE, val |-> StrArr(response.predictedRoutes)]

(***************************************************************************)
(* Properties of the browser side.                                         *)
(***************************************************************************)

\* a bridge payload that carries no predictions: absent, malformed, not an
\* array, or an empty array
NoPredictionsPayload(payload) ==
    \/ payload = Undefined
    \/ LET parsed == JsonParse(payload.v)
       IN  \/ ~parsed.ok
           \/ parsed.val.t # "arr"
           \/ Len(parsed.val.v) = 0

\* C17: on both ends of the bridge a malformed, non-array, empty or absent
\* payload means "no predictions": the injector renders no data island for
\* such a header value, and a client that finds such an island (or none)
\* sets no routes, schedules no prefetch run and issues no prefetch.
C17_NoPredictionsOnBothEnds ==
    /\ (browser.open /\ ~browser.altered /\ NoPredictionsPayload(browser.header))
          => browser.island = Undefined
    /\ (browser.open /\ client.mounted /\ NoPredictionsPayload(browser.island))
          => /\ client.routes = << >>
             /\ client.idleCallbacks = << >>
             /\ client.prefetchCalls = << >>

C17_Witness ==
    /\ browser.open
    /\ ~browser.altered
    /\ browser.header = JStr("not json")
    /\ client.mounted
    /\ client.isRouterReady
    /\ ~client.pendingRender
    /\ ReadyState = "complete"

IsStringRoute(route) == route.t = "str" /\ route.v # ""

\* the entries of a route list that are non-empty strings, each with a
\* leading "/" put in front when it has none, in list order
ExpectedAttempts(routes) ==
    LET strings == SelectSeq(routes, IsStringRoute)
    IN  [i \in 1..Len(strings) |->
            IF Len(strings[i].v) > 0 /\ SubSeq(strings[i].v, 1, 1) = "/"
            THEN strings[i].v
            ELSE "/" \o strings[i].v]

\* C18: a prefetch run with a usable router calls router.prefetch exactly
\* once for every string route of its list, in list order, each normalized
\* to begin with "/", whichever of these calls throw.
C18_EveryStringRouteAttempted ==
    [][(/\ client.mounted
        /\ client.idleCallbacks # << >>
        /\ client'.idleCallbacks = Tail(client.idleCallbacks)
        /\ RouterUsable)
          => client'.prefetchCalls =
                client.prefetchCalls
                  \o ExpectedAttempts(Head(client.idleCallbacks))]_vars

C18_Witness ==
    /\ browser.open
    /\ client.mounted
    /\ "/a" \in browser.throwing
    /\ client.prefetchCalls = << "/a", "/b", "/c" >>

\* the router was not usable when the executor started
UnavailableAtStart ==
    ~(browser.routerReadyAt >= 0 /\ browser.routerReadyAt <= client.mountedAt)

\* C19: an executor that starts without a usable router schedules exactly
\* one re-check, due 100 ms after its start; when the router is still not
\* usable at that re-check no further check is scheduled and no prefetch is
\* scheduled or issued, however long the page stays open.
C19_OneRecheckThenGiveUp ==
    (browser.open /\ client.mounted) =>
        /\ UnavailableAtStart =>
              /\ client.timersScheduled = 1
              /\ client.timerDue = client.mountedAt + TimerDelay
        /\ ~UnavailableAtStart => client.timersScheduled = 0
        /\ (client.timer = "done" /\ ~client.isRouterReady) =>
              /\ client.idleCallbacks = << >>
              /\ client.prefetchCalls = << >>

C19_Witness ==
    /\ browser.open
    /\ client.mounted
    /\ client.timer = "done"
    /\ ~client.isRouterReady
    /\ RouterUsable
    /\ Len(client.routes) > 0
    /\ ReadyState = "complete"
    /\ browser.clock + TickMs > MaxClock

\* nothing of the executor is left to run and the clock is at its end
Settled ==
    /\ browser.open
    /\ client.mounted
    /\ ~client.pendingRender
    /\ client.timer # "armed"
    /\ client.idleCallbacks = << >>
    /\ browser.clock + TickMs > MaxClock

C21_DeferredNotDropped ==
    (/\ Settled
     /\ browser.routerReadyAt >= 0
     /\ browser.routerReadyAt <= client.mountedAt
     /\ ExpectedAttempts(client.routes) # << >>
     /\ client.mountedAt < browser.loadAt
     /\ browser.clock >= browser.loadAt)
        => client.prefetchCalls = ExpectedAttempts(client.routes)

(***************************************************************************)
(* Further properties of the service.                                      *)
(***************************************************************************)

\* C22: no caller runs inference on a partially loaded handle.  A caller
\* that awaits the load leaves the await only when the load has settled; a
\* caller is inferring only while runtime, model, vocabulary and reverse
\* vocabulary are all present and the load has settled; every call with a
\* non-empty argument completes under READY or UNAVAILABLE, uses the model
\* exactly under READY, and under the same state as the call before it.
C22_NoPartialHandle ==
    [][/\ \A c \in Callers :
            (pc[c] = "awaitLoad" /\ pc'[c] # "awaitLoad")
                => modelLoadPromise = "resolved"
       /\ \A c \in Callers :
            pc'[c] = "inferring"
                => /\ Truthy(tf') /\ Truthy(model')
                   /\ Truthy(vocab') /\ Truthy(reverseVocab')
                   /\ modelLoadPromise' = "resolved"
       /\ (returned' # returned /\ Len(returned'.paths.v) > 0)
            => /\ returned'.loadState \in {"READY", "UNAVAILABLE"}
               /\ returned'.usedModel = (returned'.loadState = "READY")
               /\ (/\ returned.calls = 1
                   /\ returned.loadState \in {"READY", "UNAVAILABLE"})
                     => returned'.loadState = returned.loadState]_vars

C22_Witness ==
    /\ \A c \in Callers : pc[c] = "awaitLoad"
    /\ modelLoadPromise = "pending"
    /\ loaderPc = "fetchingVocab"
    /\ Truthy(model)
    /\ ~Truthy(vocab)

\* C28: once the in-flight load has settled, with or without a usable
\* handle, every caller that was awaiting it resumes and its call completes;
\* and every completed call hands back a list of routes, never a rejection.
C28_AwaitersResumeAfterSettle ==
    /\ \A c \in Callers :
          (pc[c] = "awaitLoad" /\ modelLoadPromise = "resolved") ~> (pc[c] = "idle")
    /\ [](returned.calls = 1 => returned.result.ok)

C28_Witness ==
    /\ \A c \in Callers : pc[c] = "awaitLoad"
    /\ modelLoadPromise = "resolved"
    /\ ~Truthy(model)

(***************************************************************************)
(* Further properties of the rule-based code.                              *)
(***************************************************************************)

\* what the function that produced ruleOutput returns for another history
SameFunctionOn(history) ==
    IF ruleOutput.fn = "fallback" THEN FallbackPredictions(history)
    ELSE RuleBasedPredictor(history)

\* C23: for a non-empty list of route strings the rule-based code (the
\* fallback of getPredictedRoutes and the rule-based-only predictor) never
\* throws, returns at most 3 routes without duplicates, and returns the same
\* ordered list for every history that has the same last element.
C23_RuleOutputFromLastPathOnly ==
    ruleOutput.fn # "none" =>
        /\ ruleOutput.result.ok
        /\ Len(ruleOutput.result.routes) <= 3
        /\ NoDuplicates(ruleOutput.result.routes)
        /\ \A history \in RuleInputs :
              history.v[Len(history.v)] = ruleInput.v[Len(ruleInput.v)]
                  => SameFunctionOn(history) = ruleOutput.result

C23_Witness ==
    /\ ruleOutput.fn = "fallback"
    /\ ruleInput = StrArr(<< "/profile", "/category/3", "/product/7" >>)
    /\ ruleOutput.result = Ok(<< "/category/1", "/product/8", "/" >>)

(***************************************************************************)
(* Properties of the vocabulary, the encoder and the selection.            *)
(***************************************************************************)

\* the id a vocabulary has for a key of its own, or none
OwnId(v, key) ==
    LET hits == { i \in 1..Len(v.v) : v.v[i][1] = key }
    IN  IF hits = {} THEN Undefined ELSE v.v[CHOOSE i \in hits : TRUE][2]

\* lookup(route): the route's id, or UNKNOWN when the vocabulary lacks it
Lookup(v, route) ==
    IF OwnId(v, route) = Undefined THEN OwnId(v, "<UNK>") ELSE OwnId(v, route)

\* encode(routes, 5): the ids of the last min(5, len) routes, left-padded
ExpectedEncoding(routes, v) ==
    LET n == IF Len(routes) < 5 THEN Len(routes) ELSE 5
    IN  [i \in 1..5 |->
            IF i <= 5 - n THEN OwnId(v, "<PAD>")
            ELSE Lookup(v, routes[Len(routes) - 5 + i].v)]

HasReservedTokens(v) ==
    OwnId(v, "<PAD>") # Undefined /\ OwnId(v, "<UNK>") # Undefined

\* C24: with a vocabulary loaded, pathsToSequence returns for every route
\* list exactly 5 ids: those of the last min(5, len) routes in order, a route
\* the vocabulary lacks mapped to the id of <UNK>, left-padded with the id
\* of <PAD>.
C24_EncodingOfAnyRouteList ==
    (ruleOutput.fn = "pathsToSequence" /\ HasReservedTokens(vocab))
        => ruleOutput.sequence = ExpectedEncoding(ruleInput.v, vocab)

\* C26: the reverse vocabulary built by the load is a strict inverse of the
\* vocabulary (a vocabulary has unique ids): every route of the vocabulary
\* is found again under its id, and every id of the reverse vocabulary
\* leads to a route that the vocabulary maps back to that id.
C26_ReverseVocabIsInverse ==
    Truthy(vocab) =>
        /\ Truthy(reverseVocab)
        /\ \A i \in 1..Len(vocab.v) :
              OwnId(reverseVocab, ToPropertyKey(vocab.v[i][2])) = JStr(vocab.v[i][1])
        /\ \A i \in 1..Len(reverseVocab.v) :
              /\ reverseVocab.v[i][2].t = "str"
              /\ OwnId(vocab, reverseVocab.v[i][2].v) # Undefined
              /\ ToPropertyKey(OwnId(vocab, reverseVocab.v[i][2].v))
                    = reverseVocab.v[i][1]

C26_Witness ==
    /\ modelLoadPromise = "resolved"
    /\ OwnId(vocab, "/about") = JNum(3)
    /\ OwnId(reverseVocab, "3") = JStr("/about")
    /\ Len(reverseVocab.v) = 4

\* class id i comes before class id x in a selection from the row: it has
\* the higher probability, or the same probability and the lower id
ComesBefore(row, i, x) ==
    \/ row[i + 1] > row[x + 1]
    \/ row[i + 1] = row[x + 1] /\ i < x

ProbesOf(task) ==
    [i \in 1..Len(task.routes) |-> ProbeUrl(task.baseUrl, task.routes[i])]

\* C25: no prewarm probe is started before the request handler that
\* dispatched it has returned its response.  A step that starts probes
\* answers no request and takes up none: the probes are those of a task that
\* an earlier step left in the queue, and every task in the queue belongs to
\* a handler that has already returned.
C25_ProbesStartAfterResponse ==
    [][ /\ Len(immediateQueue') <= requestCount'
        /\ (probesIssued' # probesIssued) =>
              /\ response' = response
              /\ requestCount' = requestCount
              /\ request' = request
              /\ response.sent
              /\ immediateQueue # << >>
              /\ probesIssued' = ProbesOf(Head(immediateQueue)) ]_vars

\* probes of a dispatched prewarm are running, after the response that
\* carries the same routes in its header
C25_Witness ==
    /\ response.sent
    /\ Len(response.predictedRoutes) > 0
    /\ Len(probesIssued) = Len(response.predictedRoutes)
    /\ \A i \in 1..Len(probesIssued) :
          probesIssued[i] = ProbeUrl(BaseUrl, response.predictedRoutes[i])

\* the JSON array a path-history cookie spells, if it spells one
SpelledArray(cookie) ==
    IF cookie.t # "str" THEN [ok |-> FALSE, val |-> Undefined]
    ELSE LET history == JsonParse(cookie.v)
         IN  IF history.ok /\ history.val.t = "arr" THEN history
             ELSE [ok |-> FALSE, val |-> Undefined]

\* the entries of the visit log a cookie holds: those of the JSON array it
\* spells, none for anything else
LogEntriesOf(cookie) ==
    IF SpelledArray(cookie).ok THEN SpelledArray(cookie).val.v ELSE << >>

\* C29: the middleware invokes prediction only when the prior visit log
\* holds at least 3 entries; with fewer there is no call of
\* getPredictedRoutes (so no load attempt), no prediction header and no
\* prewarm.
C29_PredictionOnlyFromThreeEntries ==
    [][ Len(LogEntriesOf(cookieJar)) < MinHistory =>
          /\ ~request'.active
          /\ pc'[MwCaller] = pc[MwCaller]
          /\ modelLoadPromise' = modelLoadPromise
          /\ (response' # response =>
                 /\ response'.prefetchHeader = Undefined
                 /\ immediateQueue' = immediateQueue) ]_vars

\* C30: the prediction made while handling a request for route R is derived
\* from the visit log as received, before R is appended: the input of
\* getPredictedRoutes is the last 5 entries of the prior log, and R becomes
\* the last entry of the log that the response hands back, where the next
\* request finds it.
C30_PredictionFromLogAsReceived ==
    [][ /\ (~request.active /\ request'.active /\ SpelledArray(cookieJar).ok) =>
              /\ paths'[MwCaller].t = "arr"
              /\ paths'[MwCaller].v =
                    SliceLast(LogEntriesOf(cookieJar), ContextWindow)
        /\ (response' # response) =>
              LogEntriesOf(cookieJar') =
                 SliceLast(Append(LogEntriesOf(cookieJar),
                                  JStr(response'.currentPath)), HistoryCap)
      ]_vars

\* a second request is being predicted: its input ends with the route of
\* the first request, which the first request's own input did not end with
C30_Witness ==
    /\ request.active
    /\ requestCount = 1
    /\ response.sent
    /\ Len(response.predictedRoutes) > 0
    /\ LET prior == LogEntriesOf(JStr(response.priorHistory))
           now   == paths[MwCaller]
       IN  /\ now.t = "arr"
           /\ now.v[Len(now.v)] = JStr(response.currentPath)
           /\ prior[Len(prior)] # JStr(response.currentPath)

\* the routes an X-Prefetch-Routes header value serializes
RoutesInHeader(header) ==
    LET parsed == JsonParse(header.v)
    IN  [i \in 1..Len(parsed.val.v) |-> parsed.val.v[i].v]

C32_ProbesNeverCascade ==
    [][ /\ (probeResponses' # probeResponses /\ probeResponses' # << >>) =>
              /\ Len(probeResponses') = Len(probeResponses) + 1
              /\ pc' = pc
              /\ request' = request
              /\ modelLoadPromise' = modelLoadPromise
              /\ loadBodyRuns' = loadBodyRuns
              /\ immediateQueue' = immediateQueue
              /\ probesIssued' = probesIssued
              /\ LET answer == probeResponses'[Len(probeResponses')]
                 IN  answer.middleware =>
                        /\ "predicting" \notin DOMAIN answer
                        /\ answer.prefetchHeader = Undefined
        /\ (Len(immediateQueue') > Len(immediateQueue)) =>
              /\ requestCount' = requestCount + 1
              /\ Len(immediateQueue') = Len(immediateQueue) + 1
              /\ Len(immediateQueue'[Len(immediateQueue')].routes) <= 3
        /\ Len(probesIssued') <= 3
      ]_vars

\* the three probes of the only request so far have all been handled by the
\* middleware and nothing further is scheduled
C32_Witness ==
    /\ requestCount = Len(<< "/" >>)
    /\ Len(probesIssued) = 3
    /\ Len(probeResponses) = 3
    /\ \A i \in 1..3 : probeResponses[i].middleware
    /\ immediateQueue = << >>
    /\ ~request.active

(***************************************************************************)
(* Further properties of the browser side.                                 *)
(***************************************************************************)

C34_TensorsDisposedOnReturn ==
    ruleOutput.fn = "predictWithModel" =>
        ruleOutput.created \ ruleOutput.disposed = {}

(***************************************************************************)
(* Properties of POST /api/prefetch.                                       *)
(***************************************************************************)

\* the paths of a request body: the array under the key "paths" of the
\* JSON object the body spells, when it has 3 elements or more
UsablePathsOf(bodyText) ==
    LET body == JsonParse(bodyText)
        hits == IF body.ok /\ body.val.t = "obj"
                THEN { i \in 1..Len(body.val.v) : body.val.v[i][1] = "paths" }
                ELSE {}
        given == IF hits = {} THEN Undefined
                 ELSE body.val.v[CHOOSE i \in hits : TRUE][2]
    IN  IF given.t = "arr" /\ Len(given.v) >= MinHistory
        THEN [usable |-> TRUE, list |-> given.v]
        ELSE [usable |-> FALSE, list |-> << >>]

\* C35: POST /api/prefetch with paths missing, not an array, or holding
\* fewer than 3 elements answers 400 without calling the predictor or
\* triggering a load attempt; otherwise it predicts from the last 5 paths
\* and returns the routes, and a predictor error becomes a 500 response.
C35_PrefetchApiContract ==
    [][ (apiResponse' # apiResponse /\ apiResponse'.sent) =>
          LET given == UsablePathsOf(apiResponse'.body)
          IN  IF ~given.usable
              THEN /\ apiResponse'.status = 400
                   /\ pc' = pc
                   /\ returned' = returned
                   /\ loadBodyRuns' = loadBodyRuns
                   /\ modelLoadPromise' = modelLoadPromise
              ELSE /\ returned'.paths = JArr(SliceLast(given.list, ContextWindow))
                   /\ IF returned'.result.ok
                      THEN /\ apiResponse'.status = 200
                           /\ apiResponse'.routes = returned'.result.routes
                      ELSE apiResponse'.status = 500
      ]_vars

(***************************************************************************)
(* Properties of the web-vitals store.                                     *)
(***************************************************************************)

\* the body is JSON and lacks a required field, names a metric outside
\* ValidNames, or carries a value that is not a number
RejectableBody(bodyText) ==
    LET parsed == ParsedBody[bodyText]
        Own(field) == /\ parsed.val.t = "obj"
                      /\ \E i \in 1..Len(parsed.val.v) : parsed.val.v[i][1] = field
        Field(field) == (CHOOSE i \in 1..Len(parsed.val.v) :
                             parsed.val.v[i][1] = field)
    IN  /\ parsed.ok
        /\ \/ \E i \in 1..Len(RequiredFields) : ~Own(RequiredFields[i])
           \/ LET name == parsed.val.v[Field("name")][2]
              IN  ~(name.t = "str" /\ name.v \in ValidNames)
           \/ parsed.val.v[Field("value")][2].t # "num"

\* C36: a POST /api/web-vitals whose body lacks a required field, names a
\* metric other than TTFB, LCP, FID or CLS, or has a non-numeric value is
\* answered 400, and from its arrival to its answer the stored sample list
\* and the metrics file stay as they were.
C36_InvalidSampleRejectedUntouched ==
    [][ \A slot \in PostSlots :
          (posts'[slot] # posts[slot] /\ RejectableBody(posts'[slot].body)) =>
             /\ metricsStore' = metricsStore
             /\ metricsFile' = metricsFile
             /\ posts'[slot].pc = "done" => posts'[slot].status = 400
      ]_vars

\* the requests answered 200
Accepted == { slot \in PostSlots : posts[slot].pc = "done" /\ posts[slot].status = 200 }

\* the samples of a list that no request of this run put there
Seeds(store) == { i \in 1..Len(store.v) : store.v[i] = SeedSample }

\* the list holds, at places of their own, the samples of all requests
\* answered 200, and besides them only what the file held at the start
HoldsAccepted(store) ==
    /\ store.t = "arr"
    /\ \E place \in [Accepted -> 1..Len(store.v)] :
          /\ \A a, b \in Accepted : a # b => place[a] # place[b]
          /\ \A a \in Accepted : store.v[place[a]] = posts[a].sample
    /\ Len(store.v) = Cardinality(Accepted) + Cardinality(Seeds(store))

\* C37: as long as every file write has succeeded, whatever the
\* interleaving of POSTs at their suspension point, the list in memory and
\* the file hold every sample answered 200, and a GET answers 200 with a
\* sampleCount equal to the number of those samples (plus the samples the
\* file held when the server started).
C37_NoAcceptedSampleLost ==
    [][ writeErrors' = 0 =>
          /\ Accepted' # {} =>
                /\ HoldsAccepted(metricsStore)'
                /\ metricsFile' # Undefined
                /\ metricsFile'.v = JsonStringify(metricsStore')
          /\ (lastGet' # lastGet /\ (Accepted' # {} \/ lastGet'.status = 200)) =>
                /\ lastGet'.status = 200
                /\ lastGet'.sampleCount =
                      Cardinality(Accepted') + Cardinality(Seeds(metricsStore'))
      ]_vars

\* the second POST was answered 200 while the first was suspended, the
\* first was answered 200 after it, and a GET then counted both
C37_Witness ==
    /\ writeErrors = 0
    /\ Accepted = {1, 2}
    /\ posts[1].sampleCount = posts[2].sampleCount + 1
    /\ lastGet.sent
    /\ lastGet.status = 200
    /\ lastGet.sampleCount = posts[1].sampleCount

====
